---- MODULE Spec2Model ----
(***************************************************************************)
(* Model of the mesh picking and highlight engine of src/render2.py        *)
(* (class Render): the ray/triangle intersector, the nearest-hit scan, the *)
(* region grouper (find_connected_triangles) and the timed highlight       *)
(* controller (handle_click / update_highlight_timer).                     *)
(*                                                                         *)
(* Numbers.  Vertex positions, ray origins and ray directions are integer  *)
(* 3-vectors; every quotient the code forms (u, v, t) is kept as an exact  *)
(* fraction num/den.  The triangles of the catalogue have legs 2 and 4 and *)
(* the rays are axis aligned, so every determinant `a` is +-8 or +-16 and  *)
(* the floating point operations of the code are exact on these inputs.    *)
(* Normals are integer vectors in units of 1/NormalUnit.                    *)
(***************************************************************************)
EXTENDS Integers, Sequences, FiniteSets, TLC

\* ------------------------------------------------------------------ bounds
MaxTri == 3          \* triangles in the loaded mesh
MaxClock == 3001     \* largest clock reading (ms) the model lets get_ticks reach
MaxCalls == 3        \* calls of find_connected_triangles followed step by step
MaxEvents == 3       \* input events posted to the event queue in one run
MantBits == 8        \* bits in the significand of a float (53 in a Python float)

\* ------------------------------------------------------- program constants
HIGHLIGHT_MS == 1000                 \* render2.py:271
EPS_DEN == 1000000                   \* 1e-6 = 1/EPS_DEN, render2.py:180,198
DOT_NUM == 9999                      \* 0.9999 = DOT_NUM/DOT_DEN, render2.py:218,229
DOT_DEN == 10000
BLUE == <<0, 0, 1>>                  \* [0.0, 0.0, 1.0], the default color
RED == <<1, 0, 0>>                   \* [1.0, 0.0, 0.0], the highlight color

NoTriangle == -1                     \* closest_triangle = None
ATOL_DEN == 100000000                \* np.isclose: atol = 1e-8 = 1/ATOL_DEN, render2.py:106
RATIO_DIV1 == 1000                   \* self.volume / 1000 / 7500, render2.py:68
RATIO_DIV2 == 7500
STL_SUFFIX == <<".", "s", "t", "l">> \* '.stl', render2.py:114
CAMERA_DIST == 5                     \* render2.py:17-23; degrees and whole units
MIN_DIST == 1
MAX_DIST == 5
CAMERA_HEADING == 35
CAMERA_PITCH == 35
MIN_PITCH == 0
MAX_PITCH == 85
FLIP_STEP == 90                      \* render2.py:450
FULL_TURN == 360

\* ------------------------------------------------------------ vector algebra
Abs(x) == IF x < 0 THEN -x ELSE x

Dot(a, b) == a[1] * b[1] + a[2] * b[2] + a[3] * b[3]

Cross(a, b) == << a[2] * b[3] - a[3] * b[2],
                  a[3] * b[1] - a[1] * b[3],
                  a[1] * b[2] - a[2] * b[1] >>

Sub(a, b) == << a[1] - b[1], a[2] - b[2], a[3] - b[3] >>

\* n1/d1 < n2/d2 for fractions with non-zero denominators of either sign
FracLess(n1, d1, n2, d2) ==
    LET s1 == IF d1 < 0 THEN -1 ELSE 1
        s2 == IF d2 < 0 THEN -1 ELSE 1
    IN  (s1 * n1) * (s2 * d2) < (s2 * n2) * (s1 * d1)

\* ------------------------------------------------------ the mesh catalogue
\* Triangle shapes the bounded meshes are built from.
\*   GA, GB : the two halves of the square [0,4]x[0,4] in the plane z = 1
\*   GD     : a copy of GA lifted to z = 3 (no vertex in common with GA, GB)
\*   GE     : a triangle in the plane x = 0 joining GA and GD
\*   GC     : a triangle in z = 1 touching GB in the single vertex (4,4,1)
\* The planes z = 1 and z = 3 do not pass through the origin and GA, GB, GC,
\* GD are wound the same way, so the signed volume that
\* compute_volumetric_properties accumulates over a mesh of these shapes is
\* positive and the mesh can be constructed.
GA == << <<0, 0, 1>>, <<4, 0, 1>>, <<0, 4, 1>> >>
GB == << <<4, 0, 1>>, <<4, 4, 1>>, <<0, 4, 1>> >>
GC == << <<4, 4, 1>>, <<8, 4, 1>>, <<4, 8, 1>> >>
GD == << <<0, 0, 3>>, <<4, 0, 3>>, <<0, 4, 3>> >>
GE == << <<0, 0, 1>>, <<0, 4, 1>>, <<0, 0, 3>> >>
GeoOrder == << GA, GB, GD, GE, GC >>

\* The normals a triangle of the file may carry: three directions 0.7 degrees
\* apart (N0.N1 and N1.N2 exceed 0.9999, N0.N2 does not) and the zero normal
\* of a degenerate facet.
N0 == <<0, 0, 20000>>
N1 == <<0, 244, 19999>>
N2 == <<0, 489, 19994>>
NZ == <<0, 0, 0>>
NormalSet == {N0, N1, N2, NZ}
NormalUnit == N0[3]                  \* the length of a unit normal

\* Rays get_ray_from_mouse can return: [origin, unit direction].  The last
\* ray stands for the direction (1,1,-3)/sqrt(11): u and v do not depend on the
\* length of the direction, a and t are scaled by sqrt(11), and their values
\* on the catalogue (integers, multiples of 1/48) lie on the same side of 1e-6
\* either way.
Rays == << [origin |-> <<1, 1, 6>>,  dir |-> <<0, 0, -1>>],    \* down through GA (and GD)
           [origin |-> <<3, 3, 6>>,  dir |-> <<0, 0, -1>>],    \* down through GB
           [origin |-> <<2, 2, 6>>,  dir |-> <<0, 0, -1>>],    \* down through the edge GA/GB
           [origin |-> <<1, 1, -4>>, dir |-> <<0, 0, 1>>],     \* up through GA, then GD
           [origin |-> <<-3, 1, 2>>, dir |-> <<1, 0, 0>>],     \* sideways through GE
           [origin |-> <<5, 5, 6>>,  dir |-> <<0, 0, -1>>],    \* down through GC
           [origin |-> <<1, 1, 6>>,  dir |-> <<0, 0, 1>>],     \* pointing away from the mesh
           [origin |-> <<9, 9, 6>>,  dir |-> <<0, 0, -1>>],    \* outside the bounding box
           [origin |-> <<5, 3, 6>>,  dir |-> <<0, 0, -1>>],    \* beside GB and GC (v < 0)
           [origin |-> <<1, 1, 2>>,  dir |-> <<1, 1, -3>>] >>  \* through the centroid of GA
RayIds == 1..Len(Rays)

VARIABLES
    model,                  \* self.model: [vertices, normals]
    vertex_colors,          \* self.vertex_colors, one color per vertex
    highlight_end_time,     \* self.highlight_end_time
    highlighted_triangles,  \* self.highlighted_triangles
    ticks,                  \* the reading of pygame.time.get_ticks()
    closest_triangle,       \* handle_click: the triangle the last scan selected
    last_op,                \* history: the operation that produced this state
    last_pick,              \* history: seed and clock reading of the last successful pick
    fc_pc,                  \* find_connected_triangles: "idle", "loop" or "done"
    fc_start,               \* find_connected_triangles: start_triangle_idx
    connected,              \* find_connected_triangles: connected
    to_check,               \* find_connected_triangles: to_check
    fc_prev,                \* history: seed and result of the first completed call
    ctor_pc,                \* Render.__init__: "new", "ready" or "error"
    file,                   \* the file named by the constructor's argument
    center,                 \* self.center, a vector of fractions num[i]/den
    volume,                 \* self.volume, a fraction num/den
    ratio,                  \* self.ratio, num/den/over
    camera_distance,        \* self.camera_distance
    camera_heading,         \* self.camera_heading (degrees)
    camera_pitch,           \* self.camera_pitch (degrees)
    model_rotation_x,       \* self.model_rotation_x (degrees)
    app_pc,                 \* MainApplication.run: "tick", "events", "update" or "draw"
    queue,                  \* the pygame event queue
    batch,                  \* handle_events: the events of pygame.event.get() still to handle
    pick_pc,                \* handle_click: "idle", "scanned", "grouped", "reset", "painted"
    pick_region,            \* handle_click: connected_triangles
    frame,                  \* history: events posted, fetched and handled in this iteration
    component,              \* a GUIComponent: rect, visible, enabled, hover, clicked
    radio_group,            \* a RadioButtonGroup: selected_index, radio_buttons, ...
    menu_bar,               \* a MenuBar: menus, menu_buttons, active_menu_index, dropdown_items
    dropdown,               \* a DropdownMenu: options, selected_index, expanded
    slider,                 \* a Slider: min_value, max_value, value, dragging
    gallery,                \* a SurfaceGallery: scroll_y, collapsed, surface_items, ...
    app,                    \* MainApplication: renderer, components, the assets panel
    gui_log,                \* history: the events the widget has been handed, oldest first
    gui_last                \* history: the last handle_event call, its result and callbacks

vars == << model, vertex_colors, highlight_end_time, highlighted_triangles, ticks,
           closest_triangle, last_op, last_pick,
           fc_pc, fc_start, connected, to_check, fc_prev,
           ctor_pc, file, center, volume, ratio,
           camera_distance, camera_heading, camera_pitch, model_rotation_x,
           app_pc, queue, batch, pick_pc, pick_region, frame,
           component, radio_group, menu_bar, dropdown, slider, gallery, app,
           gui_log, gui_last >>

loopVars == << app_pc, queue, batch, pick_pc, pick_region, frame >>
ctorVars == << ctor_pc, file, center, volume, ratio >>
camVars == << camera_distance, camera_heading, camera_pitch >>
guiVars == << component, radio_group, menu_bar, dropdown, slider, gallery, app,
              gui_log, gui_last >>
hlVars == << vertex_colors, highlight_end_time, highlighted_triangles >>
fcVars == << fc_pc, fc_start, connected, to_check, fc_prev >>

\* ------------------------------------------------------------ mesh access
NumTriangles == Len(model.normals)
Triangles == 0..(NumTriangles - 1)

\* self.model['vertices'][idx*3:(idx+1)*3]
TriangleVertices(idx) ==
    << model.vertices[3 * idx + 1], model.vertices[3 * idx + 2], model.vertices[3 * idx + 3] >>

\* Variant: the normal of a triangle is stored once per vertex.
load_model_NormalPerVertex(shapes, normals) ==
    [ vertices |-> [k \in 1..(3 * Len(shapes)) |->
                        shapes[((k - 1) \div 3) + 1][((k - 1) % 3) + 1]],
      normals  |-> [k \in 1..(3 * Len(normals)) |-> normals[((k - 1) \div 3) + 1]] ]

\* load_model: vertices = vectors.reshape(-1, 3), normals = one per triangle
load_model(shapes, normals) ==
    [ vertices |-> [k \in 1..(3 * Len(shapes)) |->
                        shapes[((k - 1) \div 3) + 1][((k - 1) % 3) + 1]],
      normals  |-> normals ]

\* The meshes of the bounded model: MaxTri consecutive shapes of GeoOrder
\* (starting anywhere, cyclically), each with any normal of NormalSet.
Layout(r) == [i \in 1..MaxTri |-> GeoOrder[((r + i - 2) % Len(GeoOrder)) + 1]]
MeshSet == { load_model(Layout(r), ns) : r \in 1..Len(GeoOrder), ns \in [1..MaxTri -> NormalSet] }

\* The meshes the highlight controller is followed on: the layout that starts
\* with GC, GA, GB (a chain GC - GB - GA of vertex-adjacent triangles),
\* with the three non-zero normals.
HighlightMeshes ==
    { load_model(Layout(Len(GeoOrder)), ns) : ns \in [1..MaxTri -> {N0, N1, N2}] }

\* ------------------------------------------------------------- Intersector
\* check_triangle_intersection returns None or the float t; the model returns
\* [hit |-> FALSE] or the fraction t = num/den.
NoHit == [hit |-> FALSE, num |-> 0, den |-> 1]

\* Variant: the test `u + v > 1.0` of line 192 is left out.
check_triangle_intersection_NoSum(ray_origin, ray_dir, triangle) ==
    LET v0 == triangle[1]
        v1 == triangle[2]
        v2 == triangle[3]
        edge1 == Sub(v1, v0)
        edge2 == Sub(v2, v0)
        h == Cross(ray_dir, edge2)
        a == Dot(edge1, h)
        s == Sub(ray_origin, v0)
        un == Dot(s, h)
        q == Cross(s, edge1)
        vn == Dot(ray_dir, q)
        tn == Dot(edge2, q)
    IN  IF Abs(a) * EPS_DEN < 1 THEN NoHit
        ELSE IF FracLess(un, a, 0, 1) \/ FracLess(1, 1, un, a) THEN NoHit
        ELSE IF FracLess(vn, a, 0, 1) THEN NoHit
        ELSE IF FracLess(1, EPS_DEN, tn, a) THEN [hit |-> TRUE, num |-> tn, den |-> a]
        ELSE NoHit

\* Variant: a triangle parallel to the ray is reported as a hit at t = 0.
check_triangle_intersection_ZeroOnParallel(ray_origin, ray_dir, triangle) ==
    LET v0 == triangle[1]
        v1 == triangle[2]
        v2 == triangle[3]
        edge1 == Sub(v1, v0)
        edge2 == Sub(v2, v0)
        h == Cross(ray_dir, edge2)
        a == Dot(edge1, h)
        s == Sub(ray_origin, v0)
        un == Dot(s, h)
        q == Cross(s, edge1)
        vn == Dot(ray_dir, q)
        tn == Dot(edge2, q)
    IN  IF Abs(a) * EPS_DEN < 1 THEN [hit |-> TRUE, num |-> 0, den |-> 1]
        ELSE IF FracLess(un, a, 0, 1) \/ FracLess(1, 1, un, a) THEN NoHit
        ELSE IF FracLess(vn, a, 0, 1) \/ FracLess(1, 1, un + vn, a) THEN NoHit
        ELSE IF FracLess(1, EPS_DEN, tn, a) THEN [hit |-> TRUE, num |-> tn, den |-> a]
        ELSE NoHit

check_triangle_intersection(ray_origin, ray_dir, triangle) ==
    LET v0 == triangle[1]
        v1 == triangle[2]
        v2 == triangle[3]
        edge1 == Sub(v1, v0)
        edge2 == Sub(v2, v0)
        h == Cross(ray_dir, edge2)
        a == Dot(edge1, h)
        s == Sub(ray_origin, v0)
        un == Dot(s, h)                 \* u = f * un, f = 1/a
        q == Cross(s, edge1)
        vn == Dot(ray_dir, q)           \* v = f * vn
        tn == Dot(edge2, q)             \* t = f * tn
    IN  IF Abs(a) * EPS_DEN < 1 THEN NoHit                               \* abs(a) < 1e-6
        ELSE IF FracLess(un, a, 0, 1) \/ FracLess(1, 1, un, a) THEN NoHit   \* u < 0 or u > 1
        ELSE IF FracLess(vn, a, 0, 1) \/ FracLess(1, 1, un + vn, a) THEN NoHit
        ELSE IF FracLess(1, EPS_DEN, tn, a) THEN [hit |-> TRUE, num |-> tn, den |-> a]
        ELSE NoHit

\* Variant: the comparison of line 254 also accepts an equal t.
Closer_OrEqual(t, closest_t) ==
    /\ t.hit
    /\ (~closest_t.hit \/ ~FracLess(closest_t.num, closest_t.den, t.num, t.den))

\* Variant: the comparison of line 254 is reversed.
Closer_Reversed(t, closest_t) ==
    /\ t.hit
    /\ (~closest_t.hit \/ FracLess(closest_t.num, closest_t.den, t.num, t.den))

\* `t is not None and t < closest_t`, closest_t starting at float('inf')
Closer(t, closest_t) ==
    /\ t.hit
    /\ (~closest_t.hit \/ FracLess(t.num, t.den, closest_t.num, closest_t.den))

\* One iteration of the scan loop of handle_click (lines 250-256) on triangle
\* idx, from the best so far best = [t, tri].
ScanStep(ray, idx, best) ==
    LET t == check_triangle_intersection(ray.origin, ray.dir, TriangleVertices(idx))
    IN  IF Closer(t, best.t) THEN [t |-> t, tri |-> idx] ELSE best

\* The scan over triangles idx, idx+1, ... in storage order.
RECURSIVE ScanFrom(_, _, _)
ScanFrom(ray, idx, best) ==
    IF idx >= NumTriangles THEN best
    ELSE ScanFrom(ray, idx + 1, ScanStep(ray, idx, best))

\* Variant: closest_triangle starts at 0 instead of None.
FindClosestTriangle_FromZero(ray) == ScanFrom(ray, 0, [t |-> NoHit, tri |-> 0]).tri

\* closest_triangle after the loop; NoTriangle stands for None
FindClosestTriangle(ray) == ScanFrom(ray, 0, [t |-> NoHit, tri |-> NoTriangle]).tri

\* ---------------------------------------------------------- Region Grouper
\* np.dot(x, y) > 0.9999 for normals in units of 1/NormalUnit
DotAboveThreshold(x, y) == Dot(x, y) > DOT_NUM * ((NormalUnit * NormalUnit) \div DOT_DEN)

\* Variant: the comparison of v1 with ov3 is missing.
ShareVertexPosition_Eight(t1, t2) ==
    LET v == TriangleVertices(t1)
        ov == TriangleVertices(t2)
    IN  \/ v[1] = ov[1] \/ v[1] = ov[2]
        \/ v[2] = ov[1] \/ v[2] = ov[2] \/ v[2] = ov[3]
        \/ v[3] = ov[1] \/ v[3] = ov[2] \/ v[3] = ov[3]

\* The nine np.array_equal comparisons of lines 234-236
ShareVertexPosition(t1, t2) ==
    LET v == TriangleVertices(t1)
        ov == TriangleVertices(t2)
    IN  \/ v[1] = ov[1] \/ v[1] = ov[2] \/ v[1] = ov[3]
        \/ v[2] = ov[1] \/ v[2] = ov[2] \/ v[2] = ov[3]
        \/ v[3] = ov[1] \/ v[3] = ov[2] \/ v[3] = ov[3]

\* Variant: the test `other_idx in connected` of line 225 is left out.
ScanOthers_Revisit(start, current, conn) ==
    { other_idx \in Triangles :
        /\ DotAboveThreshold(model.normals[start + 1], model.normals[other_idx + 1])
        /\ ShareVertexPosition(current, other_idx) }

\* Variant: the normal of a candidate is compared with the normal of the
\* triangle being processed instead of the normal of the start triangle.
ScanOthers_Pairwise(start, current, conn) ==
    { other_idx \in Triangles :
        /\ other_idx \notin conn
        /\ DotAboveThreshold(model.normals[current + 1], model.normals[other_idx + 1])
        /\ ShareVertexPosition(current, other_idx) }

\* The triangles the inner for-loop (lines 223-237) adds to to_check while
\* `current` is being processed and `conn` is the connected set.
ScanOthers(start, current, conn) ==
    { other_idx \in Triangles :
        /\ other_idx \notin conn
        /\ DotAboveThreshold(model.normals[start + 1], model.normals[other_idx + 1])
        /\ ShareVertexPosition(current, other_idx) }

\* One iteration of the while loop (lines 210-237) after `current` was popped
\* from to_check: the new [connected, to_check].
LoopBody(start, current, conn, todo) ==
    IF current \in conn THEN [connected |-> conn, to_check |-> todo]
    ELSE LET conn2 == conn \cup {current}
         IN  IF DotAboveThreshold(model.normals[start + 1], model.normals[current + 1])
             THEN [connected |-> conn2,
                   to_check |-> todo \cup ScanOthers(start, current, conn2)]
             ELSE [connected |-> conn2, to_check |-> todo]

\* find_connected_triangles as one call, popping the least element each time
\* (set.pop() may return any element; FloodFillStep below leaves it open).
RECURSIVE FloodFill(_, _, _)
FloodFill(start, conn, todo) ==
    IF todo = {} THEN conn
    ELSE LET current == CHOOSE c \in todo : \A d \in todo : c <= d
             r == LoopBody(start, current, conn, todo \ {current})
         IN  FloodFill(start, r.connected, r.to_check)

find_connected_triangles(start_triangle_idx) ==
    FloodFill(start_triangle_idx, {}, {start_triangle_idx})

\* ------------------------------------------------------ Highlight Controller
\* Variant: the reset of line 263 is left out.
ResetColors_Skipped(colors) == colors

\* self.vertex_colors[:] = [0.0, 0.0, 1.0]   (line 263; also line 72)
ResetColors(colors) == [k \in DOMAIN colors |-> BLUE]

\* Variant: start_idx is off by one vertex slot.
PaintTriangles_Shifted(colors, tris, color) ==
    [k \in DOMAIN colors |-> IF (k \div 3) \in tris THEN color ELSE colors[k]]

\* for triangle_idx in tris: colors[start_idx:start_idx+3] = color
\* (lines 266-268 and 279-281)
PaintTriangles(colors, tris, color) ==
    [k \in DOMAIN colors |-> IF ((k - 1) \div 3) \in tris THEN color ELSE colors[k]]

\* Variant: a pick that supersedes a highlight keeps the running deadline.
HighlightDeadline_Kept(now) ==
    IF highlighted_triangles # {} THEN highlight_end_time ELSE now + HIGHLIGHT_MS

\* pygame.time.get_ticks() + 1000   (line 271)
HighlightDeadline(now) == now + HIGHLIGHT_MS

\* Variants: the highlight expires at the deadline already (>=); the
\* comparison is reversed (<).
HighlightExpired_AtDeadline(current_time) ==
    current_time >= highlight_end_time /\ highlighted_triangles # {}

HighlightExpired_Reversed(current_time) ==
    current_time < highlight_end_time /\ highlighted_triangles # {}

\* The condition of line 277
HighlightExpired(current_time) ==
    current_time > highlight_end_time /\ highlighted_triangles # {}

\* ------------------------------------------------------------ construction
\* A file is [name, unit, vectors, normals, solid]: the characters of its name,
\* the triangles and facet normals numpy-stl reads from it (coordinates are
\* integers in units of 1/unit), and a description of the solid it was cut
\* from, which only the properties look at.
\* Variant: the volume of each tetrahedron is taken unsigned.
tetra_volume6_Unsigned(v0, v1, v2) == Abs(Dot(v0, Cross(v1, v2)))

\* 6 * tetra_volume = np.dot(v0, np.cross(v1, v2))   (line 100)
tetra_volume6(v0, v1, v2) == Dot(v0, Cross(v1, v2))

\* The loop of lines 97-103 from triangle i on.
RECURSIVE SumTriangles(_, _, _)
SumTriangles(vectors, i, acc) ==
    IF i > Len(vectors) THEN acc
    ELSE LET v0 == vectors[i][1]
             v1 == vectors[i][2]
             v2 == vectors[i][3]
             \* tetra_volume = det / 6, tetra_centroid = (v0 + v1 + v2) / 4
             det == tetra_volume6(v0, v1, v2)
         IN  SumTriangles(vectors, i + 1,
                 [total_volume6 |-> acc.total_volume6 + det,
                  centroid_sum24 |-> [k \in 1..3 |->
                      acc.centroid_sum24[k] + (v0[k] + v1[k] + v2[k]) * det]])

\* np.isclose(x, 0) for x = num/den, den > 0: |x| <= 1e-8
IsCloseToZero(num, den) == Abs(num) <= den \div ATOL_DEN

NoNumber == [num |-> 0, den |-> 0]                  \* the attribute is not set
NoRatio == [num |-> 0, den |-> 0, over |-> 0]
NoCenter == [num |-> <<0, 0, 0>>, den |-> 0]
NoModel == [vertices |-> <<>>, normals |-> <<>>]
NoColors == <<>>                                    \* self.vertex_colors = None

\* Variant: the zero test of line 106 is left out.
compute_volumetric_properties_Unchecked(f) ==
    LET acc == SumTriangles(f.vectors, 1, [total_volume6 |-> 0, centroid_sum24 |-> <<0, 0, 0>>])
        u3 == f.unit * f.unit * f.unit
    IN  [raised |-> FALSE,
         center |-> [num |-> acc.centroid_sum24, den |-> 4 * acc.total_volume6 * f.unit],
         volume |-> [num |-> acc.total_volume6, den |-> 6 * u3]]

\* compute_volumetric_properties (lines 91-110): total_volume = total_volume6 /
\* (6 unit^3), centroid_sum = centroid_sum24 / (24 unit^4); raises ValueError
\* or returns (centroid_sum / total_volume, total_volume).
compute_volumetric_properties(f) ==
    LET acc == SumTriangles(f.vectors, 1, [total_volume6 |-> 0, centroid_sum24 |-> <<0, 0, 0>>])
        u3 == f.unit * f.unit * f.unit
    IN  IF IsCloseToZero(acc.total_volume6, 6 * u3)
        THEN [raised |-> TRUE, center |-> NoCenter, volume |-> NoNumber]
        ELSE [raised |-> FALSE,
              center |-> [num |-> acc.centroid_sum24, den |-> 4 * acc.total_volume6 * f.unit],
              volume |-> [num |-> acc.total_volume6, den |-> 6 * u3]]

\* Variant: the suffix is looked for anywhere in the name.
EndsWith_Anywhere(str, suffix) ==
    \E i \in 1..Len(str) :
        i + Len(suffix) - 1 <= Len(str) /\ SubSeq(str, i, i + Len(suffix) - 1) = suffix

\* str.endswith(suffix)
EndsWith(str, suffix) ==
    /\ Len(str) >= Len(suffix)
    /\ SubSeq(str, Len(str) - Len(suffix) + 1, Len(str)) = suffix

\* load_model(filename) (lines 112-120): the buffers, or ValueError
LoadModel(f) ==
    IF EndsWith(f.name, STL_SUFFIX)
    THEN [raised |-> FALSE, model |-> load_model(f.vectors, f.normals)]
    ELSE [raised |-> TRUE, model |-> NoModel]

\* The attributes Render.__init__ (lines 63-89) has set when it returns or
\* raises, for the file f.
RenderInit(f) ==
    LET vp == compute_volumetric_properties(f)
        lm == LoadModel(f)
        novalue == [vertex_colors |-> NoColors, center |-> NoCenter, volume |-> NoNumber,
                    ratio |-> NoRatio, model |-> NoModel]
    IN  IF vp.raised THEN [pc |-> "error"] @@ novalue                      \* line 67 raises
        ELSE LET measured == [center |-> vp.center, volume |-> vp.volume,
                              \* ratio = num / den / over
                              ratio |-> [num |-> vp.volume.num, den |-> vp.volume.den,
                                         over |-> RATIO_DIV1 * RATIO_DIV2]]
             IN  IF lm.raised THEN [pc |-> "error"] @@ measured @@ novalue \* line 69 raises
                 ELSE [pc |-> "ready", model |-> lm.model,
                       vertex_colors |-> [k \in 1..Len(lm.model.vertices) |-> BLUE]]
                      @@ measured

\* The triangles of a mesh as an STL file lists them.
StlName == <<"m", ".", "s", "t", "l">>
StlFile(m) ==
    [name |-> StlName, unit |-> 1,
     vectors |-> [t \in 1..Len(m.normals) |->
                     << m.vertices[3 * t - 2], m.vertices[3 * t - 1], m.vertices[3 * t] >>],
     normals |-> m.normals,
     solid |-> [kind |-> "open", pts |-> <<>>]]

\* No widget has been constructed and none has been handed an event.
NoWidget == [kind |-> "none"]
NoCall == [event |-> [type |-> "none"], consumed |-> FALSE, calls |-> <<>>]
NoWidgets ==
    /\ component = NoWidget
    /\ radio_group = NoWidget
    /\ menu_bar = NoWidget
    /\ dropdown = NoWidget
    /\ slider = NoWidget
    /\ gallery = NoWidget
    /\ app = NoWidget
    /\ gui_log = <<>>
    /\ gui_last = NoCall

\* MainApplication before run(): no event is queued, no pick is under way.
LoopInit ==
    /\ app_pc = "tick"
    /\ queue = <<>>
    /\ batch = <<>>
    /\ pick_pc = "idle"
    /\ pick_region = {}
    /\ frame = [posted |-> 0, fetched |-> 0, handled |-> 0]

\* The state after Render.__init__ (lines 63-89) for a mesh of the bounded set.
InitWith(meshes) ==
    /\ \E m \in meshes :
          LET r == RenderInit(StlFile(m))
          IN  /\ r.pc = "ready"
              /\ ctor_pc = r.pc
              /\ file = StlFile(m)
              /\ model = r.model
              /\ vertex_colors = r.vertex_colors
              /\ center = r.center
              /\ volume = r.volume
              /\ ratio = r.ratio
    /\ camera_distance = CAMERA_DIST
    /\ camera_heading = CAMERA_HEADING
    /\ camera_pitch = CAMERA_PITCH
    /\ model_rotation_x = 0
    /\ LoopInit
    /\ highlight_end_time = 0
    /\ highlighted_triangles = {}
    /\ ticks = 0
    /\ closest_triangle = NoTriangle
    /\ last_op = [name |-> "init", ray |-> 0, before |-> {}]
    /\ last_pick = [seed |-> NoTriangle, time |-> 0]
    /\ fc_pc = "idle"
    /\ fc_start = NoTriangle
    /\ connected = {}
    /\ to_check = {}
    /\ fc_prev = [seed |-> NoTriangle, result |-> {}, calls |-> 0]
    /\ NoWidgets

\* Render.handle_click for the ray of mouse position r.  A pick is taken only
\* while its deadline lies below MaxClock, so that the bounded clock can pass it.
handle_click(r) ==
    /\ ctor_pc = "ready"
    /\ ticks + HIGHLIGHT_MS < MaxClock
    /\ LET ct == FindClosestTriangle(Rays[r])
       IN  /\ closest_triangle' = ct
           /\ IF ct # NoTriangle
              THEN LET connected_triangles == find_connected_triangles(ct)
                   IN  /\ vertex_colors' = PaintTriangles(ResetColors(vertex_colors),
                                                          connected_triangles, RED)
                       /\ highlight_end_time' = HighlightDeadline(ticks)
                       /\ highlighted_triangles' = connected_triangles
                       /\ last_pick' = [seed |-> ct, time |-> ticks]
              ELSE UNCHANGED << hlVars, last_pick >>
    /\ last_op' = [name |-> "click", ray |-> r, before |-> highlighted_triangles]
    /\ UNCHANGED << guiVars, model, ticks, fcVars, ctorVars, camVars, model_rotation_x, loopVars >>

\* Render.update_highlight_timer, called once per frame
update_highlight_timer ==
    /\ ctor_pc = "ready"
    /\ LET current_time == ticks
       IN  IF HighlightExpired(current_time)
           THEN /\ vertex_colors' = PaintTriangles(vertex_colors, highlighted_triangles, BLUE)
                /\ highlighted_triangles' = {}
                /\ UNCHANGED highlight_end_time
           ELSE UNCHANGED hlVars
    /\ last_op' = [name |-> "timer", ray |-> 0, before |-> highlighted_triangles]
    /\ UNCHANGED << guiVars, model, ticks, closest_triangle, last_pick, fcVars, ctorVars, camVars, model_rotation_x, loopVars >>

\* Time passes between two calls: pygame.time.get_ticks() grows by d ms.
ClockDeltas == {1000, 1001}
AdvanceClock ==
    /\ ticks < MaxClock
    /\ \E d \in ClockDeltas \cup {MaxClock - ticks} :
          /\ ticks + d <= MaxClock
          /\ ticks' = ticks + d
    /\ last_op' = [name |-> "clock", ray |-> 0, before |-> highlighted_triangles]
    /\ UNCHANGED << guiVars, model, hlVars, closest_triangle, last_pick, fcVars, ctorVars, camVars, model_rotation_x, loopVars >>

Click == \E r \in RayIds : handle_click(r)

\* The mouse positions used with the highlight controller: the rays through
\* GA, GB and GC and the ray that misses the mesh.
HighlightRays == {1, 2, 6, 8}
ClickHighlight == \E r \in HighlightRays : handle_click(r)

Next == ClickHighlight \/ update_highlight_timer \/ AdvanceClock

Init == InitWith(HighlightMeshes)

Spec == Init /\ [][Next]_vars

\* The frame loop polls the timer and the clock keeps running.
LiveSpec == Spec /\ WF_vars(update_highlight_timer) /\ WF_vars(AdvanceClock)

\* ------------------------------------- find_connected_triangles, step by step
\* Variant: `connected` is not emptied at the entry of the call.
FC_Call_Stale(seed) ==
    /\ ctor_pc = "ready"
    /\ fc_pc \in {"idle", "done"}
    /\ fc_prev.calls < MaxCalls
    /\ fc_pc' = "loop"
    /\ fc_start' = seed
    /\ connected' = connected
    /\ to_check' = {seed}
    /\ UNCHANGED << guiVars, model, hlVars, ticks, closest_triangle, last_op, last_pick, fc_prev, ctorVars, camVars, model_rotation_x, loopVars >>

\* Entry of the call (lines 205-207)
FC_Call(seed) ==
    /\ ctor_pc = "ready"
    /\ fc_pc \in {"idle", "done"}
    /\ fc_prev.calls < MaxCalls
    /\ fc_pc' = "loop"
    /\ fc_start' = seed
    /\ connected' = {}
    /\ to_check' = {seed}
    /\ UNCHANGED << guiVars, model, hlVars, ticks, closest_triangle, last_op, last_pick, fc_prev, ctorVars, camVars, model_rotation_x, loopVars >>

\* One iteration of `while to_check` (lines 209-237); pop() takes any element.
FC_Iterate ==
    /\ fc_pc = "loop"
    /\ \E current \in to_check :
          LET r == LoopBody(fc_start, current, connected, to_check \ {current})
          IN  /\ connected' = r.connected
              /\ to_check' = r.to_check
    /\ UNCHANGED << guiVars, model, hlVars, ticks, closest_triangle, last_op, last_pick,
                    fc_pc, fc_start, fc_prev, ctorVars, camVars, model_rotation_x, loopVars >>

\* `return connected` (line 239)
FC_Return ==
    /\ fc_pc = "loop"
    /\ to_check = {}
    /\ fc_pc' = "done"
    /\ fc_prev' = IF fc_prev.calls = 0
                  THEN [seed |-> fc_start, result |-> connected, calls |-> 1]
                  ELSE [fc_prev EXCEPT !.calls = @ + 1]
    /\ UNCHANGED << guiVars, model, hlVars, ticks, closest_triangle, last_op, last_pick,
                    fc_start, connected, to_check, ctorVars, camVars, model_rotation_x, loopVars >>

FC_Start == \E seed \in Triangles : FC_Call(seed)

NextGroup == FC_Start \/ FC_Iterate \/ FC_Return

InitAll == InitWith(MeshSet)

SpecGroup == InitAll /\ [][NextGroup]_vars

\* A call that has started keeps executing: the loop body and the return are
\* straight-line code.
LiveSpecGroup == SpecGroup /\ WF_vars(FC_Iterate) /\ WF_vars(FC_Return)

\* The pick alone, on every mesh of the bounded set.
SpecPick == InitAll /\ [][Click]_vars

\* ------------------------------------------------------------ Orbit Camera
\* render2.py declares the camera state and its bounds (lines 17-23, 51-57)
\* and reads it in update_camera; the operations that move the camera are not
\* part of it.  apply_drag and apply_zoom follow the clamp policy of the
\* design: heading wraps modulo 360, pitch and distance are clamped.
Clamp_UpperOnly(x, lo, hi) == IF x > hi THEN hi ELSE x

Clamp(x, lo, hi) == IF x < lo THEN lo ELSE IF x > hi THEN hi ELSE x

DragDeltas == {-1000, -30, 30, 1000}     \* degrees of pitch per call
TurnDeltas == {0, 90}                    \* degrees of heading per call
ZoomDeltas == {-1000, -1, 1, 1000}       \* distance per call

apply_drag(dx_heading_deg, dy_pitch_deg) ==
    /\ ctor_pc = "ready"
    /\ camera_heading' = (camera_heading + dx_heading_deg) % FULL_TURN
    /\ camera_pitch' = Clamp(camera_pitch + dy_pitch_deg, MIN_PITCH, MAX_PITCH)
    /\ last_op' = [name |-> "drag", ray |-> 0, before |-> highlighted_triangles]
    /\ UNCHANGED << guiVars, model, hlVars, ticks, closest_triangle, last_pick, fcVars, ctorVars,
                    camera_distance, model_rotation_x, loopVars >>

apply_zoom(delta) ==
    /\ ctor_pc = "ready"
    /\ camera_distance' = Clamp(camera_distance + delta, MIN_DIST, MAX_DIST)
    /\ last_op' = [name |-> "zoom", ray |-> 0, before |-> highlighted_triangles]
    /\ UNCHANGED << guiVars, model, hlVars, ticks, closest_triangle, last_pick, fcVars, ctorVars,
                    camera_heading, camera_pitch, model_rotation_x, loopVars >>

\* Render.update_camera (lines 132-145) reads the camera state and hands the
\* eye position to gluLookAt; no attribute is assigned.
update_camera ==
    /\ ctor_pc = "ready"
    /\ last_op' = [name |-> "camera", ray |-> 0, before |-> highlighted_triangles]
    /\ UNCHANGED << guiVars, model, hlVars, ticks, closest_triangle, last_pick, fcVars, ctorVars,
                    camVars, model_rotation_x, loopVars >>

Drag == \E dx \in TurnDeltas, dy \in DragDeltas : apply_drag(dx, dy)
Zoom == \E delta \in ZoomDeltas : apply_zoom(delta)

NextCamera == Drag \/ Zoom \/ update_camera

SpecCamera == Init /\ [][NextCamera]_vars

\* ------------------------------------------------------------ the main loop
\* MainApplication.run (main_gui.py 2322-2331): handle_events(), update(dt),
\* draw(), in this order, on one thread.  handle_events (2125-2155) takes the
\* queued events with pygame.event.get() and handles them one after another;
\* a pointer-down event in the viewport goes to the renderer, whose pick is
\* Render.handle_click, followed here line by line.
LoopEvents == { [type |-> "down", ray |-> r] : r \in {1, 6, 8} } \cup { [type |-> "key", ray |-> 0] }

\* The operating system queues an input event; it may do so at any moment.
PostEvent ==
    /\ frame.posted < MaxEvents
    /\ \E e \in LoopEvents : queue' = Append(queue, e)
    /\ frame' = [frame EXCEPT !.posted = @ + 1]
    /\ UNCHANGED << guiVars, model, hlVars, ticks, closest_triangle, last_op, last_pick, fcVars,
                    ctorVars, camVars, model_rotation_x, app_pc, batch, pick_pc, pick_region >>

\* self.clock.tick(60), then the entry of handle_events: pygame.event.get()
Loop_Tick ==
    /\ ctor_pc = "ready"
    /\ app_pc = "tick"
    /\ app_pc' = "events"
    /\ batch' = queue
    /\ queue' = <<>>
    /\ frame' = [frame EXCEPT !.fetched = Len(queue), !.handled = 0]
    /\ UNCHANGED << guiVars, model, hlVars, ticks, closest_triangle, last_op, last_pick, fcVars,
                    ctorVars, camVars, model_rotation_x, pick_pc, pick_region >>

\* The body of the for loop for an event the renderer does not pick on.
HandleOther ==
    /\ app_pc = "events" /\ pick_pc = "idle"
    /\ batch # <<>> /\ Head(batch).type # "down"
    /\ batch' = Tail(batch)
    /\ frame' = [frame EXCEPT !.handled = @ + 1]
    /\ UNCHANGED << guiVars, model, hlVars, ticks, closest_triangle, last_op, last_pick, fcVars,
                    ctorVars, camVars, model_rotation_x, app_pc, queue, pick_pc, pick_region >>

\* handle_click lines 244-257: the ray and the scan; a miss ends the call.
HC_Scan ==
    /\ app_pc = "events" /\ pick_pc = "idle"
    /\ batch # <<>> /\ Head(batch).type = "down"
    /\ ticks + HIGHLIGHT_MS < MaxClock
    /\ LET ct == FindClosestTriangle(Rays[Head(batch).ray])
       IN  /\ closest_triangle' = ct
           /\ IF ct # NoTriangle
              THEN /\ pick_pc' = "scanned"
                   /\ UNCHANGED << batch, frame, last_op >>
              ELSE /\ batch' = Tail(batch)
                   /\ frame' = [frame EXCEPT !.handled = @ + 1]
                   /\ last_op' = [name |-> "click", ray |-> Head(batch).ray,
                                  before |-> highlighted_triangles]
                   /\ UNCHANGED pick_pc
    /\ UNCHANGED << guiVars, model, hlVars, ticks, last_pick, fcVars, ctorVars, camVars,
                    model_rotation_x, app_pc, queue, pick_region >>

\* line 260: connected_triangles = self.find_connected_triangles(closest_triangle)
HC_Group ==
    /\ pick_pc = "scanned"
    /\ pick_region' = find_connected_triangles(closest_triangle)
    /\ pick_pc' = "grouped"
    /\ UNCHANGED << guiVars, model, hlVars, ticks, closest_triangle, last_op, last_pick, fcVars,
                    ctorVars, camVars, model_rotation_x, app_pc, queue, batch, frame >>

\* line 263: every vertex back to blue
HC_Reset ==
    /\ pick_pc = "grouped"
    /\ vertex_colors' = ResetColors(vertex_colors)
    /\ pick_pc' = "reset"
    /\ UNCHANGED << guiVars, model, highlight_end_time, highlighted_triangles, ticks, closest_triangle,
                    last_op, last_pick, fcVars, ctorVars, camVars, model_rotation_x,
                    app_pc, queue, batch, pick_region, frame >>

\* lines 266-268: the region red
HC_Paint ==
    /\ pick_pc = "reset"
    /\ vertex_colors' = PaintTriangles(vertex_colors, pick_region, RED)
    /\ pick_pc' = "painted"
    /\ UNCHANGED << guiVars, model, highlight_end_time, highlighted_triangles, ticks, closest_triangle,
                    last_op, last_pick, fcVars, ctorVars, camVars, model_rotation_x,
                    app_pc, queue, batch, pick_region, frame >>

\* lines 271-272: the deadline and the highlighted set; the call returns
HC_Finish ==
    /\ pick_pc = "painted"
    /\ highlight_end_time' = HighlightDeadline(ticks)
    /\ highlighted_triangles' = pick_region
    /\ last_pick' = [seed |-> closest_triangle, time |-> ticks]
    /\ last_op' = [name |-> "click", ray |-> Head(batch).ray, before |-> highlighted_triangles]
    /\ pick_pc' = "idle"
    /\ batch' = Tail(batch)
    /\ frame' = [frame EXCEPT !.handled = @ + 1]
    /\ UNCHANGED << guiVars, model, vertex_colors, ticks, closest_triangle, fcVars, ctorVars, camVars,
                    model_rotation_x, app_pc, queue, pick_region >>

\* handle_events returns when its for loop is exhausted; run calls update(dt)
Loop_EventsDone ==
    /\ app_pc = "events" /\ pick_pc = "idle"
    /\ batch = <<>>
    /\ app_pc' = "update"
    /\ UNCHANGED << guiVars, model, hlVars, ticks, closest_triangle, last_op, last_pick, fcVars,
                    ctorVars, camVars, model_rotation_x, queue, batch, pick_pc, pick_region, frame >>

\* update(dt) touches the GUI components only; run calls draw()
Loop_Update ==
    /\ app_pc = "update"
    /\ app_pc' = "draw"
    /\ UNCHANGED << guiVars, model, hlVars, ticks, closest_triangle, last_op, last_pick, fcVars,
                    ctorVars, camVars, model_rotation_x, queue, batch, pick_pc, pick_region, frame >>

\* Variant: the scene is drawn from a second thread, whatever the loop is doing.
Loop_Draw_AnyTime ==
    /\ ctor_pc = "ready"
    /\ app_pc' = IF app_pc = "draw" THEN "tick" ELSE app_pc
    /\ last_op' = [name |-> "draw", ray |-> 0, before |-> highlighted_triangles]
    /\ UNCHANGED << guiVars, model, hlVars, ticks, closest_triangle, last_pick, fcVars,
                    ctorVars, camVars, model_rotation_x, queue, batch, pick_pc, pick_region, frame >>

\* draw() renders the scene, reading the color buffer (Render.draw_model,
\* render2.py 284-342), and the loop starts over
Loop_Draw ==
    /\ app_pc = "draw"
    /\ app_pc' = "tick"
    /\ last_op' = [name |-> "draw", ray |-> 0, before |-> highlighted_triangles]
    /\ UNCHANGED << guiVars, model, hlVars, ticks, closest_triangle, last_pick, fcVars,
                    ctorVars, camVars, model_rotation_x, queue, batch, pick_pc, pick_region, frame >>

NextLoop ==
    \/ PostEvent \/ Loop_Tick \/ HandleOther
    \/ HC_Scan \/ HC_Group \/ HC_Reset \/ HC_Paint \/ HC_Finish
    \/ Loop_EventsDone \/ Loop_Update \/ Loop_Draw

\* The meshes the main loop is followed on: GC, GA, GB, ... with one normal
\* (one region) and with GA's normal turned away (GA alone, GB with GC).
LoopMeshes ==
    { load_model(Layout(Len(GeoOrder)), ns) :
        ns \in { [i \in 1..MaxTri |-> N0], [i \in 1..MaxTri |-> IF i = 2 THEN N2 ELSE N0] } }

SpecLoop == InitWith(LoopMeshes) /\ [][NextLoop]_vars

\* ------------------------------------------------- construction from a file
\* The names a file may have.
FileNames == { StlName,
               <<"m", ".", "o", "b", "j">>,
               <<"m", ".", "S", "T", "L">>,
               <<"m", ".", "s", "t", "l", ".", "t", "x", "t">>,
               <<"s", "t", "l">> }

TwoTriangles(a, b, c, d) == << <<a, b, c>>, <<a, c, d>> >>

\* The surface of the box [lo, lo + size], 12 triangles wound outwards.
BoxVectors(lo, size) ==
    LET P(i, j, k) == << lo[1] + i * size[1], lo[2] + j * size[2], lo[3] + k * size[3] >>
    IN  TwoTriangles(P(0,0,0), P(0,1,0), P(1,1,0), P(1,0,0)) \o
        TwoTriangles(P(0,0,1), P(1,0,1), P(1,1,1), P(0,1,1)) \o
        TwoTriangles(P(0,0,0), P(0,0,1), P(0,1,1), P(0,1,0)) \o
        TwoTriangles(P(1,0,0), P(1,1,0), P(1,1,1), P(1,0,1)) \o
        TwoTriangles(P(0,0,0), P(1,0,0), P(1,0,1), P(0,0,1)) \o
        TwoTriangles(P(0,1,0), P(0,1,1), P(1,1,1), P(1,1,0))

\* The surface of the tetrahedron p0, p0 + (a,0,0), p0 + (0,b,0), p0 + (0,0,c),
\* 4 triangles wound outwards.
TetraPoints(p0, e) ==
    << p0, << p0[1] + e[1], p0[2], p0[3] >>, << p0[1], p0[2] + e[2], p0[3] >>,
       << p0[1], p0[2], p0[3] + e[3] >> >>
TetraVectors(p) ==
    << <<p[1], p[3], p[2]>>, <<p[1], p[2], p[4]>>, <<p[1], p[4], p[3]>>, <<p[2], p[3], p[4]>> >>

FileOf(unit, vectors, kind, pts) ==
    [name |-> StlName, unit |-> unit, vectors |-> vectors,
     normals |-> [t \in 1..Len(vectors) |-> N0],
     solid |-> [kind |-> kind, pts |-> pts]]

Corners01 == {0, 1} \X {0, 1} \X {0, 1}
Sizes == {1, 2} \X {1, 2} \X {1, 2}

\* Boxes with a corner at (-1,-1,-1) .. (0,0,0) and sides 1 or 2, in units of
\* 1 or 1/2; the cube [-1/2, 1/2]^3 is the one with lo = (-1,-1,-1), size
\* (2,2,2), unit 2.
BoxFiles ==
    { FileOf(u, BoxVectors(<<c[1] - 1, c[2] - 1, c[3] - 1>>, sz), "box",
             << <<c[1] - 1, c[2] - 1, c[3] - 1>>,
                <<c[1] - 1 + sz[1], c[2] - 1 + sz[2], c[3] - 1 + sz[3]>> >>)
        : c \in Corners01, sz \in Sizes, u \in {1, 2} }

\* Tetrahedra in unit 1, and two tiny ones in units of 1/256 whose volumes
\* 1/(6 256^3) and 2/(6 256^3) lie on either side of 1e-8.
TetraFiles ==
    { FileOf(1, TetraVectors(TetraPoints(<<c[1] - 1, c[2], c[3] + 1>>, sz)), "tetra",
             TetraPoints(<<c[1] - 1, c[2], c[3] + 1>>, sz)) : c \in Corners01, sz \in Sizes }
    \cup
    { FileOf(256, TetraVectors(TetraPoints(<<0, 0, 0>>, <<1, 1, h>>)), "tetra",
             TetraPoints(<<0, 0, 0>>, <<1, 1, h>>)) : h \in {1, 2} }

Reversed(tri) == << tri[1], tri[3], tri[2] >>

\* Surfaces that enclose nothing: the empty file, a triangle in a plane
\* through the origin, a sheet listed with both windings.
FlatFiles ==
    { FileOf(1, <<>>, "flat", <<>>),
      FileOf(1, << << <<0, 0, 0>>, <<4, 0, 0>>, <<0, 4, 0>> >> >>, "flat", <<>>),
      FileOf(1, << GA, Reversed(GA) >>, "flat", <<>>),
      FileOf(1, << GD, GB, Reversed(GB), Reversed(GD) >>, "flat", <<>>) }

LoadFiles ==
    { [f EXCEPT !.name = n] :
        f \in BoxFiles \cup TetraFiles \cup FlatFiles \cup { StlFile(m) : m \in MeshSet },
        n \in FileNames }

\* Before Render(filename) is called: no attribute exists.
NoRender(files) ==
    /\ file \in files
    /\ ctor_pc = "new"
    /\ model = NoModel
    /\ vertex_colors = NoColors
    /\ center = NoCenter
    /\ volume = NoNumber
    /\ ratio = NoRatio
    /\ camera_distance = 0
    /\ camera_heading = 0
    /\ camera_pitch = 0
    /\ model_rotation_x = 0
    /\ LoopInit
    /\ highlight_end_time = 0
    /\ highlighted_triangles = {}
    /\ ticks = 0
    /\ closest_triangle = NoTriangle
    /\ last_op = [name |-> "none", ray |-> 0, before |-> {}]
    /\ last_pick = [seed |-> NoTriangle, time |-> 0]
    /\ fc_pc = "idle"
    /\ fc_start = NoTriangle
    /\ connected = {}
    /\ to_check = {}
    /\ fc_prev = [seed |-> NoTriangle, result |-> {}, calls |-> 0]

InitFrom(files) == NoRender(files) /\ NoWidgets

InitLoad == InitFrom(LoadFiles)

\* Render.__init__(filename) (lines 26-89), returning or raising
Render_init ==
    /\ ctor_pc = "new"
    /\ LET r == RenderInit(file)
       IN  /\ ctor_pc' = r.pc
           /\ model' = r.model
           /\ vertex_colors' = r.vertex_colors
           /\ center' = r.center
           /\ volume' = r.volume
           /\ ratio' = r.ratio
    /\ camera_distance' = CAMERA_DIST                   \* lines 51-53
    /\ camera_heading' = CAMERA_HEADING
    /\ camera_pitch' = CAMERA_PITCH
    /\ last_op' = [name |-> "init", ray |-> 0, before |-> {}]
    /\ UNCHANGED << guiVars, file, model_rotation_x, highlight_end_time, highlighted_triangles,
                    ticks, closest_triangle, last_pick, fcVars, loopVars >>

SpecLoad == InitLoad /\ [][Render_init]_vars

\* ------------------------------------------------- the viewer as a whole
\* The operations of Render that only read the state: they hand values to
\* OpenGL or return them, and assign no attribute.
ReadOnly(name, r) ==
    /\ ctor_pc = "ready"
    /\ last_op' = [name |-> name, ray |-> r, before |-> highlighted_triangles]
    /\ UNCHANGED << guiVars, model, hlVars, ticks, closest_triangle, last_pick, fcVars, ctorVars,
                    camVars, model_rotation_x, loopVars >>

\* Render.draw_model (lines 284-342): reads vertices, normals, vertex_colors
draw_model == ReadOnly("draw_model", 0)

\* Render.get_ray_from_mouse (lines 147-166): returns the ray of a mouse position
get_ray_from_mouse(r) == ReadOnly("ray", r)

\* A call of Render.find_connected_triangles (lines 203-239) for a seed; its
\* sets are locals, the result is returned.
GroupRegion(seed) ==
    /\ find_connected_triangles(seed) # {}
    /\ ReadOnly("group", 0)

\* Variant: flipping the model also clears the highlight colors.
flip_model_x_Recolor ==
    /\ ctor_pc = "ready"
    /\ model_rotation_x' = (model_rotation_x + FLIP_STEP) % FULL_TURN
    /\ vertex_colors' = ResetColors(vertex_colors)
    /\ last_op' = [name |-> "flip", ray |-> 0, before |-> highlighted_triangles]
    /\ UNCHANGED << guiVars, model, highlight_end_time, highlighted_triangles, ticks, closest_triangle,
                    last_pick, fcVars, ctorVars, camVars, loopVars >>

\* Render.flip_model_x (lines 448-450)
flip_model_x ==
    /\ ctor_pc = "ready"
    /\ model_rotation_x' = (model_rotation_x + FLIP_STEP) % FULL_TURN
    /\ last_op' = [name |-> "flip", ray |-> 0, before |-> highlighted_triangles]
    /\ UNCHANGED << guiVars, model, hlVars, ticks, closest_triangle, last_pick, fcVars, ctorVars,
                    camVars, loopVars >>

\* The files the viewer is constructed from: GC, GA, GB, ... as m.stl and as
\* m.obj, and a two-sided sheet.
ViewerFiles ==
    { FileOf(1, Layout(Len(GeoOrder)), "open", <<>>),
      [FileOf(1, Layout(Len(GeoOrder)), "open", <<>>) EXCEPT !.name = <<"m", ".", "o", "b", "j">>],
      FileOf(1, << GA, Reversed(GA) >>, "flat", <<>>) }

InitViewer == InitFrom(ViewerFiles)

NextViewer ==
    \/ Render_init
    \/ (\E r \in {1, 8} : handle_click(r))
    \/ update_highlight_timer
    \/ AdvanceClock
    \/ apply_drag(0, 1000)
    \/ apply_zoom(-1000)
    \/ update_camera
    \/ draw_model
    \/ (\E r \in {1, 8} : get_ray_from_mouse(r))
    \/ (\E seed \in Triangles : GroupRegion(seed))
    \/ flip_model_x

SpecViewer == InitViewer /\ [][NextViewer]_vars

\* ======================================================================
\* Properties of the Highlight Controller (specification Spec)
\* ======================================================================
TriangleOf(k) == (k - 1) \div 3                     \* the triangle of vertex slot k
Corners(t) == {3 * t + 1, 3 * t + 2, 3 * t + 3}     \* the vertex slots of triangle t
RedTriangles == { t \in Triangles : \A k \in Corners(t) : vertex_colors[k] = RED }
AllDefault == \A k \in DOMAIN vertex_colors : vertex_colors[k] = BLUE
Idle == highlighted_triangles = {}
PickSucceeded == last_op.name = "click" /\ closest_triangle # NoTriangle

\* C1: in every reachable state the triangles whose three vertices are red are
\* exactly highlighted_triangles (every other vertex is blue), and that set is
\* empty or the region find_connected_triangles returned for the most recent
\* successful pick; two regions are never highlighted together.
C1_OneHighlight ==
    /\ RedTriangles = highlighted_triangles
    /\ \A k \in DOMAIN vertex_colors :
          vertex_colors[k] = (IF TriangleOf(k) \in highlighted_triangles THEN RED ELSE BLUE)
    /\ \/ highlighted_triangles = {}
       \/ /\ last_pick.seed \in Triangles
          /\ highlighted_triangles = find_connected_triangles(last_pick.seed)

\* a pick replaced an active highlight by a different region
C1_Witness ==
    /\ PickSucceeded
    /\ last_op.before # {}
    /\ last_op.before # highlighted_triangles
    /\ RedTriangles = highlighted_triangles

\* C2: with no intervening pick, a timer check whose clock reading is at most
\* T+1000 (T the time of the pick) leaves the highlight in place; a check whose
\* reading exceeds T+1000 turns every vertex of the region blue and empties
\* highlighted_triangles; a timer check in Idle changes nothing.
C2_TimerStep ==
    IF highlighted_triangles = {} THEN UNCHANGED hlVars
    ELSE IF ticks <= last_pick.time + HIGHLIGHT_MS THEN UNCHANGED hlVars
    ELSE /\ highlighted_triangles' = {}
         /\ \A t \in highlighted_triangles : \A k \in Corners(t) : vertex_colors'[k] = BLUE

C2_TimerExpiry == [][last_op'.name = "timer" => C2_TimerStep]_vars

\* the first timer check after the deadline reverted the highlight
C2_Witness ==
    /\ last_op.name = "timer"
    /\ last_op.before # {}
    /\ ticks = last_pick.time + HIGHLIGHT_MS + 1
    /\ highlighted_triangles = {}
    /\ AllDefault

\* C3: every successful pick at time T sets the expiry to T+1000; the triangles
\* of the previous region that are not in the new one are blue right after it;
\* and a highlight is only ever reverted after the deadline of the latest pick.
C3_PickStep ==
    /\ (last_op'.name = "click" /\ closest_triangle' # NoTriangle) =>
          /\ highlight_end_time' = ticks + HIGHLIGHT_MS
          /\ \A t \in highlighted_triangles \ highlighted_triangles' :
                \A k \in Corners(t) : vertex_colors'[k] = BLUE
    /\ (highlighted_triangles # {} /\ highlighted_triangles' = {}) =>
          ticks > last_pick.time + HIGHLIGHT_MS

C3_Supersede == [][C3_PickStep]_vars

\* a pick at a later time superseded an active highlight and dropped part of it
C3_Witness ==
    /\ PickSucceeded
    /\ last_op.before \ highlighted_triangles # {}
    /\ ticks > 0
    /\ highlight_end_time = ticks + HIGHLIGHT_MS

\* C4: the color of a vertex changes in a step only if its triangle belongs to
\* the region being highlighted or to the region being reverted.
C4_ColorStep ==
    \A k \in DOMAIN vertex_colors :
        vertex_colors'[k] # vertex_colors[k] =>
            TriangleOf(k) \in (highlighted_triangles \cup highlighted_triangles')

C4_ColorFrame == [][C4_ColorStep]_vars

\* a pick replaced one region by another and left a third triangle untouched
C4_Witness ==
    /\ PickSucceeded
    /\ last_op.before # {}
    /\ last_op.before # highlighted_triangles
    /\ \E t \in Triangles : t \notin (last_op.before \cup highlighted_triangles)

\* C5: a pick whose ray intersects no triangle changes neither vertex_colors
\* nor highlighted_triangles nor highlight_end_time.
RayMisses(ray) ==
    \A t \in Triangles :
        ~check_triangle_intersection(ray.origin, ray.dir, TriangleVertices(t)).hit

C5_MissStep ==
    (last_op'.name = "click" /\ RayMisses(Rays[last_op'.ray])) => UNCHANGED hlVars

C5_MissNoOp == [][C5_MissStep]_vars

\* a pick missed the mesh while a highlight was active, and the highlight stayed
C5_Witness ==
    /\ last_op.name = "click"
    /\ RayMisses(Rays[last_op.ray])
    /\ closest_triangle = NoTriangle
    /\ last_op.before # {}
    /\ highlighted_triangles = last_op.before

\* C6: when the timer is polled every frame and the clock keeps advancing,
\* every highlight is followed by a state without highlight in which all
\* vertices are blue (picks stop because the bounded clock runs out).
C6_EventuallyIdle == (highlighted_triangles # {}) ~> (Idle /\ AllDefault)

\* a timer check ended a highlight
C6_Witness ==
    /\ last_op.name = "timer"
    /\ last_op.before # {}
    /\ Idle
    /\ AllDefault
    /\ ticks > highlight_end_time

\* ======================================================================
\* Properties of the Region Grouper (specification SpecGroup)
\* ======================================================================
\* The two predicates of the region definition, stated on the buffers.
SharesVertex(a, b) ==
    \E i \in 1..3, j \in 1..3 : model.vertices[3 * a + i] = model.vertices[3 * b + j]

\* dot(n_a, n_b) > 0.9999, written as 1 - dot(n_a, n_b) < 0.0001
ParallelNormals(a, b) ==
    NormalUnit * NormalUnit - Dot(model.normals[a + 1], model.normals[b + 1])
        < ((NormalUnit * NormalUnit) \div DOT_DEN) * (DOT_DEN - DOT_NUM)

\* Triangles reachable from S by chains whose consecutive triangles share a
\* vertex and have parallel normals.
RECURSIVE ChainClosure(_)
ChainClosure(S) ==
    LET S2 == S \cup { t \in Triangles : \E m \in S : SharesVertex(m, t) /\ ParallelNormals(m, t) }
    IN  IF S2 = S THEN S ELSE ChainClosure(S2)

\* Triangles reachable from S by chains whose consecutive triangles share a
\* vertex and all of whose triangles have a normal parallel to the seed's.
RECURSIVE SeedClosure(_, _)
SeedClosure(seed, S) ==
    LET S2 == S \cup { t \in Triangles : \E m \in S :
                          /\ SharesVertex(m, t)
                          /\ ParallelNormals(seed, m)
                          /\ ParallelNormals(seed, t) }
    IN  IF S2 = S THEN S ELSE SeedClosure(seed, S2)

\* Triangles reachable from S by chains of vertex-sharing triangles inside R.
RECURSIVE VertexClosureWithin(_, _)
VertexClosureWithin(R, S) ==
    LET S2 == S \cup { t \in R : \E m \in S : SharesVertex(m, t) }
    IN  IF S2 = S THEN S ELSE VertexClosureWithin(R, S2)

Returned == fc_pc = "done"

SquarePlusUnrelated ==
    /\ NumTriangles >= 3
    /\ TriangleVertices(0) = GA
    /\ TriangleVertices(1) = GB
    /\ model.normals[1] = N0
    /\ model.normals[2] = N0
    /\ \A t \in Triangles \ {0, 1} :
          /\ ~SharesVertex(0, t) /\ ~SharesVertex(1, t)
          /\ ~ParallelNormals(0, t)

C8_Connected == \A t \in connected : t \in VertexClosureWithin(connected, {fc_start})
C8_Example == (SquarePlusUnrelated /\ fc_start = 0) => connected = {0, 1}

\* C8 as claimed: the result contains the seed, contains no triangle whose
\* normal is not parallel to the seed's, contains only triangles that are
\* vertex-connected to the seed through members of the result, and is {0,1}
\* for seed 0 of the square-plus-unrelated mesh.
C8_AllParallel ==
    Returned =>
        /\ fc_start \in connected
        /\ \A t \in connected : ParallelNormals(fc_start, t)
        /\ C8_Connected
        /\ C8_Example

\* C8 (amended): as claimed, but the seed itself is in the result whatever its
\* normal; every other member has a normal parallel to the seed's.
C8_OthersParallel ==
    Returned =>
        /\ fc_start \in connected
        /\ \A t \in connected \ {fc_start} : ParallelNormals(fc_start, t)
        /\ C8_Connected
        /\ C8_Example

\* group(0) returned {0,1} on the square-plus-unrelated mesh
C8_Witness ==
    /\ Returned
    /\ SquarePlusUnrelated
    /\ fc_start = 0
    /\ connected = {0, 1}

\* C9: a call returns the same set as an earlier call with the same seed, the
\* set does not depend on the order in which to_check is popped (it is the set
\* the least-first order produces), and the steps of the call leave the vertex,
\* normal and color buffers and the highlight state unchanged.
C9_SameResult ==
    Returned =>
        /\ connected = find_connected_triangles(fc_start)
        /\ (fc_prev.seed = fc_start => connected = fc_prev.result)

C9_CallStep ==
    << fc_pc, fc_start, connected, to_check >>' # << fc_pc, fc_start, connected, to_check >>
        => UNCHANGED << model, vertex_colors, highlighted_triangles, highlight_end_time >>

C9_Idempotent == []C9_SameResult /\ [][C9_CallStep]_vars

\* a later call with the seed of the first call returned the same region of
\* several triangles
C9_Witness ==
    /\ Returned
    /\ fc_prev.calls >= 2
    /\ fc_prev.seed = fc_start
    /\ Cardinality(connected) >= 2
    /\ connected = fc_prev.result

\* ======================================================================
\* Properties of the pick scan (specification SpecPick)
\* ======================================================================
HitOf(ray, t) == check_triangle_intersection(ray.origin, ray.dir, TriangleVertices(t))
ValidHits(ray) == { t \in Triangles : HitOf(ray, t).hit }
HitLess(x, y) == FracLess(x.num, x.den, y.num, y.den)

\* C10: after a pick the selected triangle has a valid hit and no triangle has
\* a valid hit with a strictly smaller t; when no triangle has a valid hit no
\* triangle is selected.
C10_NearestHit ==
    last_op.name = "click" =>
        LET ray == Rays[last_op.ray]
        IN  IF ValidHits(ray) = {}
            THEN closest_triangle = NoTriangle
            ELSE /\ closest_triangle \in ValidHits(ray)
                 /\ \A t \in ValidHits(ray) :
                       ~HitLess(HitOf(ray, t), HitOf(ray, closest_triangle))

\* the scan selected a triangle that comes after a farther hit in storage order
C10_Witness ==
    /\ last_op.name = "click"
    /\ closest_triangle \in ValidHits(Rays[last_op.ray])
    /\ \E t \in ValidHits(Rays[last_op.ray]) :
          /\ t < closest_triangle
          /\ HitLess(HitOf(Rays[last_op.ray], closest_triangle), HitOf(Rays[last_op.ray], t))

\* The quantities of the intersection test of a ray with a triangle
\* (a, u = un/a, v = vn/a, t = tn/a), and the conditions on them.
Determinants(ray, tri) ==
    LET e1 == Sub(tri[2], tri[1])
        e2 == Sub(tri[3], tri[1])
        h == Cross(ray.dir, e2)
        s == Sub(ray.origin, tri[1])
        q == Cross(s, e1)
    IN  [a |-> Dot(e1, h), un |-> Dot(s, h), vn |-> Dot(ray.dir, q), tn |-> Dot(e2, q)]

HitConditions(ray, tri) ==
    LET m == Determinants(ray, tri)
    IN  /\ Abs(m.a) * EPS_DEN >= 1                       \* |a| >= 1e-6
        /\ IF m.a > 0
           THEN /\ 0 <= m.un /\ m.un <= m.a              \* 0 <= u <= 1
                /\ 0 <= m.vn /\ m.un + m.vn <= m.a       \* v >= 0, u + v <= 1
                /\ m.tn * EPS_DEN > m.a                  \* t > 1e-6
           ELSE /\ 0 >= m.un /\ m.un >= m.a
                /\ 0 >= m.vn /\ m.un + m.vn >= m.a
                /\ m.tn * EPS_DEN < m.a

\* The ray meets the closed triangle in front of its origin: the crossing
\* point P = origin + t dir of the triangle's plane (t = tp/dn > 0) lies on the
\* inner side of each edge.  Stated with the plane normal, not with u and v.
CrossesTriangle(ray, tri) ==
    LET n == Cross(Sub(tri[2], tri[1]), Sub(tri[3], tri[1]))
        dn == Dot(n, ray.dir)
        tp == Dot(n, Sub(tri[1], ray.origin))
        sg == IF dn < 0 THEN -1 ELSE 1
        \* dn * (P - w) for a vertex w
        FromVertex(w) == [i \in 1..3 |-> dn * (ray.origin[i] - w[i]) + tp * ray.dir[i]]
        Inside(w1, w2) == sg * Dot(n, Cross(Sub(w2, w1), FromVertex(w1))) >= 0
    IN  /\ dn # 0
        /\ sg * tp > 0
        /\ Inside(tri[1], tri[2]) /\ Inside(tri[2], tri[3]) /\ Inside(tri[3], tri[1])

\* The ray runs through the centroid (v0 + v1 + v2)/3 of the triangle.
ThroughCentroid(ray, tri) ==
    LET g == [i \in 1..3 |-> tri[1][i] + tri[2][i] + tri[3][i] - 3 * ray.origin[i]]
    IN  Cross(g, ray.dir) = <<0, 0, 0>> /\ Dot(g, ray.dir) > 0

\* the triangle whose centroid the ray runs through while it crosses no other
CentroidTargets(ray) ==
    { c \in Triangles :
        /\ ThroughCentroid(ray, TriangleVertices(c))
        /\ \A t \in Triangles \ {c} : ~CrossesTriangle(ray, TriangleVertices(t)) }

\* C11: check_triangle_intersection reports a hit, with t = tn/a, exactly when
\* |a| >= 1e-6, 0 <= u <= 1, v >= 0, u + v <= 1 and t > 1e-6 (which is when the
\* ray crosses the triangle); and a pick whose ray runs through the centroid of
\* one triangle and crosses no other triangle selects that triangle.
C11_HitExactly ==
    /\ \A r \in RayIds : \A t \in Triangles :
          LET res == HitOf(Rays[r], t)
              tri == TriangleVertices(t)
          IN  /\ res.hit <=> HitConditions(Rays[r], tri)
              /\ res.hit <=> CrossesTriangle(Rays[r], tri)
              /\ res.hit => /\ res.num = Determinants(Rays[r], tri).tn
                            /\ res.den = Determinants(Rays[r], tri).a
    /\ last_op.name = "click" =>
          \A c \in CentroidTargets(Rays[last_op.ray]) : closest_triangle = c

\* a pick through the centroid of one triangle of a mesh of several selected it
C11_Witness ==
    /\ last_op.name = "click"
    /\ NumTriangles >= 2
    /\ closest_triangle \in CentroidTargets(Rays[last_op.ray])
    /\ HitConditions(Rays[last_op.ray], TriangleVertices(closest_triangle))

\* ======================================================================
\* Properties of the construction (specification SpecLoad)
\* ======================================================================
\* x = y for fractions
FracEq(n1, d1, n2, d2) == n1 * d2 = n2 * d1

\* The volume and the centroid of the solid a file was cut from, as fractions.
SolidVolume(f) ==
    LET p == f.solid.pts
        u3 == f.unit * f.unit * f.unit
    IN  IF f.solid.kind = "box"
        THEN [num |-> (p[2][1] - p[1][1]) * (p[2][2] - p[1][2]) * (p[2][3] - p[1][3]), den |-> u3]
        ELSE [num |-> Dot(Sub(p[2], p[1]), Cross(Sub(p[3], p[1]), Sub(p[4], p[1]))),
              den |-> 6 * u3]

SolidCentroid(f) ==
    LET p == f.solid.pts
    IN  IF f.solid.kind = "box"
        THEN [num |-> [k \in 1..3 |-> p[1][k] + p[2][k]], den |-> 2 * f.unit]
        ELSE [num |-> [k \in 1..3 |-> p[1][k] + p[2][k] + p[3][k] + p[4][k]], den |-> 4 * f.unit]

Closed(f) == f.solid.kind \in {"box", "tetra"}
UnitCube(f) ==
    /\ f.solid.kind = "box" /\ f.unit = 2
    /\ f.solid.pts = << <<-1, -1, -1>>, <<1, 1, 1>> >>

\* C12: for a closed, outward-wound mesh the accumulated signed volume equals
\* the enclosed volume and the returned centroid equals the centroid of the
\* solid; the unit cube centred at the origin gives volume 1, centroid (0,0,0).
C12_VolumeCentroid ==
    Closed(file) =>
        LET acc == SumTriangles(file.vectors, 1,
                                [total_volume6 |-> 0, centroid_sum24 |-> <<0, 0, 0>>])
            vp == compute_volumetric_properties(file)
            sv == SolidVolume(file)
            sc == SolidCentroid(file)
        IN  /\ sv.num > 0
            /\ FracEq(acc.total_volume6, 6 * file.unit * file.unit * file.unit, sv.num, sv.den)
            /\ ~vp.raised =>
                  /\ FracEq(vp.volume.num, vp.volume.den, sv.num, sv.den)
                  /\ \A k \in 1..3 : FracEq(vp.center.num[k], vp.center.den, sc.num[k], sc.den)
                  /\ UnitCube(file) =>
                        /\ vp.volume.num = vp.volume.den
                        /\ vp.center.num = <<0, 0, 0>>
                  /\ ctor_pc # "new" => (volume = vp.volume /\ center = vp.center)

\* the viewer was constructed from the unit cube centred at the origin
C12_Witness ==
    /\ ctor_pc = "ready"
    /\ UnitCube(file)
    /\ volume.num = volume.den
    /\ center.num = <<0, 0, 0>> /\ center.den # 0

\* 6 * (the accumulated signed volume), with the triple product written as
\* (v0 x v1) . v2, and the test that it is within 1e-8 of zero.
RECURSIVE SignedVolume6(_, _)
SignedVolume6(vectors, i) ==
    IF i > Len(vectors) THEN 0
    ELSE Dot(Cross(vectors[i][1], vectors[i][2]), vectors[i][3]) + SignedVolume6(vectors, i + 1)

ZeroVolume(f) ==
    LET v6 == SignedVolume6(f.vectors, 1)
        den == 6 * f.unit * f.unit * f.unit
    IN  v6 = 0 \/ (den \div Abs(v6)) >= ATOL_DEN     \* |v6| / den <= 1e-8

NothingStored ==
    /\ model = NoModel
    /\ vertex_colors = NoColors
    /\ ratio = NoRatio

\* C13: when the accumulated signed volume is within 1e-8 of zero,
\* compute_volumetric_properties raises instead of returning a centroid and the
\* construction ends in an error with no model buffers, no vertex_colors and
\* no ratio; every constructed viewer has a volume that is not close to zero.
C13_ZeroVolumeRejected ==
    /\ compute_volumetric_properties(file).raised <=> ZeroVolume(file)
    /\ (ctor_pc # "new" /\ ZeroVolume(file)) =>
          /\ ctor_pc = "error"
          /\ NothingStored
          /\ center = NoCenter /\ volume = NoNumber
    /\ ctor_pc = "ready" => ~ZeroVolume(file) /\ volume.num # 0

\* the construction from a well-named file of a two-sided sheet failed
C13_Witness ==
    /\ ctor_pc = "error"
    /\ file.name = StlName
    /\ Len(file.vectors) >= 2
    /\ ZeroVolume(file)
    /\ NothingStored

\* the name ends with the four characters '.stl'
HasStlSuffix(name) ==
    LET n == Len(name)
    IN  n >= 4 /\ name[n - 3] = "." /\ name[n - 2] = "s" /\ name[n - 1] = "t" /\ name[n] = "l"

\* C19: load_model returns buffers exactly for the names that end in '.stl';
\* for any other name it raises, the construction ends in an error and no
\* model is stored.
C19_OnlyStl ==
    /\ LoadModel(file).raised <=> ~HasStlSuffix(file.name)
    /\ ~LoadModel(file).raised =>
          /\ Len(LoadModel(file).model.vertices) = 3 * Len(file.vectors)
          /\ LoadModel(file).model.normals = file.normals
    /\ (ctor_pc # "new" /\ ~HasStlSuffix(file.name)) =>
          /\ ctor_pc = "error"
          /\ model = NoModel
          /\ vertex_colors = NoColors
    /\ ctor_pc = "ready" => HasStlSuffix(file.name) /\ model = LoadModel(file).model

\* the construction from a closed solid stored under another name failed at
\* load_model, after the volume was computed
C19_Witness ==
    /\ ctor_pc = "error"
    /\ ~HasStlSuffix(file.name)
    /\ Closed(file)
    /\ volume # NoNumber
    /\ model = NoModel

\* ======================================================================
\* Properties of the Orbit Camera (specification SpecCamera)
\* ======================================================================
\* C14: the camera starts within its bounds, and after any sequence of
\* apply_drag and apply_zoom calls, whatever the deltas, the pitch lies in
\* [0, 85] and the distance in [1, 5]; a call whose delta would leave the range
\* moves the value to the bound it crossed.
C14_InBounds ==
    /\ MIN_PITCH <= camera_pitch /\ camera_pitch <= MAX_PITCH
    /\ MIN_DIST <= camera_distance /\ camera_distance <= MAX_DIST
    /\ MIN_PITCH = 0 /\ MAX_PITCH = 85 /\ MIN_DIST = 1 /\ MAX_DIST = 5

C14_ClampStep ==
    /\ last_op'.name = "drag" =>
          \/ camera_pitch' \in { camera_pitch + d : d \in DragDeltas }
          \/ camera_pitch' = MAX_PITCH /\ \E d \in DragDeltas : camera_pitch + d > MAX_PITCH
          \/ camera_pitch' = MIN_PITCH /\ \E d \in DragDeltas : camera_pitch + d < MIN_PITCH
    /\ last_op'.name = "zoom" =>
          \/ camera_distance' \in { camera_distance + d : d \in ZoomDeltas }
          \/ camera_distance' = MAX_DIST /\ \E d \in ZoomDeltas : camera_distance + d > MAX_DIST
          \/ camera_distance' = MIN_DIST /\ \E d \in ZoomDeltas : camera_distance + d < MIN_DIST

C14_CameraBounds == []C14_InBounds /\ [][C14_ClampStep]_vars

\* a drag from an inner pitch was stopped at the lower bound, with the camera
\* zoomed in to the minimum distance
C14_Witness ==
    /\ last_op.name = "drag"
    /\ camera_pitch = MIN_PITCH
    /\ camera_distance = MIN_DIST
    /\ camera_heading # CAMERA_HEADING

\* ======================================================================
\* Properties of the main loop (specification SpecLoop)
\* ======================================================================
\* C15: when draw() runs, every event that this iteration's handle_events took
\* from the queue has been handled, no pick is between its start and the end
\* of its color mutation, and the colors draw() reads are those of the
\* highlighted region; draw() runs only after handle_events has returned.
C15_DrawStep ==
    (last_op'.name = "draw" /\ (last_op' # last_op \/ (app_pc = "draw" /\ app_pc' = "tick"))) =>
        /\ app_pc = "draw"
        /\ batch = <<>>
        /\ frame.handled = frame.fetched
        /\ pick_pc = "idle"
        /\ RedTriangles = highlighted_triangles
        /\ \A k \in DOMAIN vertex_colors :
              vertex_colors[k] = (IF TriangleOf(k) \in highlighted_triangles THEN RED ELSE BLUE)

C15_PickBeforeDraw == [][C15_DrawStep]_vars

\* a frame was drawn after its handle_events had handled two or more events
\* and a pick among them had left a region highlighted
C15_Witness ==
    /\ last_op.name = "draw"
    /\ app_pc = "tick"
    /\ frame.fetched >= 2
    /\ frame.handled = frame.fetched
    /\ highlighted_triangles # {}
    /\ RedTriangles = highlighted_triangles

\* ======================================================================
\* Properties of the buffers (specification SpecViewer)
\* ======================================================================
Loaded == ctor_pc = "ready"
TriangleCount == Len(file.vectors)        \* the triangles of the file

\* C16: once a mesh is loaded the vertex buffer has 3 entries per triangle, the
\* normal buffer 1 entry per triangle and vertex_colors as many entries as the
\* vertex buffer; no step of a loaded viewer (pick, timer, clock, camera,
\* rotation, drawing) changes these lengths or the vertex and normal buffers.
C16_Lengths ==
    Loaded =>
        /\ Len(model.vertices) = 3 * TriangleCount
        /\ Len(model.normals) = TriangleCount
        /\ Len(vertex_colors) = Len(model.vertices)
        /\ TriangleCount > 0

C16_BufferStep ==
    Loaded =>
        /\ model'.vertices = model.vertices
        /\ model'.normals = model.normals
        /\ Len(vertex_colors') = Len(vertex_colors)

C16_BuffersFixed == []C16_Lengths /\ [][C16_BufferStep]_vars

\* a highlight has expired on a mesh of several triangles after the model was
\* flipped and the camera dragged to its bound
C16_Witness ==
    /\ Loaded
    /\ last_op.name = "timer"
    /\ last_op.before # {}
    /\ highlighted_triangles = {}
    /\ model_rotation_x # 0
    /\ camera_pitch = MAX_PITCH
    /\ Len(model.normals) >= 3
    /\ Len(vertex_colors) = 3 * Len(model.normals)

\* C17: after construction a step changes vertex_colors only if it is a
\* handle_click or an update_highlight_timer; drawing, updating or moving the
\* camera, computing a ray, grouping a region and flipping the model leave
\* every color as it was.
C17_WriterStep ==
    Loaded =>
        /\ vertex_colors' # vertex_colors => last_op'.name \in {"click", "timer"}
        /\ (last_op' # last_op /\ last_op'.name \in {"draw_model", "camera", "ray", "group",
                                                       "flip", "drag", "zoom", "clock"})
              => vertex_colors' = vertex_colors

C17_SingleWriter == [][C17_WriterStep]_vars

\* the model was flipped while a region was highlighted, and the region is
\* still red
C17_Witness ==
    /\ Loaded
    /\ last_op.name = "flip"
    /\ highlighted_triangles # {}
    /\ RedTriangles = highlighted_triangles
    /\ model_rotation_x = FLIP_STEP

\* ======================================================================
\* Parallel triangles in the pick scan (specification SpecPick)
\* ======================================================================
\* the plane of triangle t is parallel to the ray: |a| < 1e-6
ParallelTo(ray, t) == Abs(Determinants(ray, TriangleVertices(t)).a) * EPS_DEN < 1

\* The pick on the triangles S alone: the first triangle in storage order
\* among those of S the ray crosses at the smallest t, or none.
PickAmong(ray, S) ==
    LET hits == { t \in S : HitConditions(ray, TriangleVertices(t)) }
        T(t) == Determinants(ray, TriangleVertices(t))
        nearest == { t \in hits : \A o \in hits : ~FracLess(T(o).tn, T(o).a, T(t).tn, T(t).a) }
    IN  IF hits = {} THEN NoTriangle
        ELSE CHOOSE t \in nearest : \A o \in nearest : t <= o

\* C18: a triangle whose plane is parallel to the ray is reported as no hit,
\* is never selected, and the pick selects what it would select if that
\* triangle were not in the mesh.
C18_ParallelSkipped ==
    /\ \A r \in RayIds : \A p \in Triangles :
          ParallelTo(Rays[r], p) => ~HitOf(Rays[r], p).hit
    /\ last_op.name = "click" =>
          \A p \in Triangles :
              ParallelTo(Rays[last_op.ray], p) =>
                  /\ closest_triangle # p
                  /\ closest_triangle = PickAmong(Rays[last_op.ray], Triangles \ {p})

\* a pick selected a triangle that is stored after a triangle parallel to the ray
C18_Witness ==
    /\ last_op.name = "click"
    /\ closest_triangle # NoTriangle
    /\ \E p \in Triangles : p < closest_triangle /\ ParallelTo(Rays[last_op.ray], p)

\* ======================================================================
\* Termination of the Region Grouper (specification LiveSpecGroup)
\* ======================================================================
\* C20: in a call of find_connected_triangles every iteration moves one
\* triangle that was not visited before into `connected`, nothing leaves
\* `connected`, no visited triangle is in `to_check`, and the call returns:
\* `to_check` becomes empty after at most one iteration per triangle.
C20_Frontier ==
    fc_pc = "loop" =>
        /\ to_check \cap connected = {}
        /\ (to_check \cup connected) \subseteq Triangles
        /\ fc_start \in (to_check \cup connected)

C20_IterationStep ==
    (fc_pc = "loop" /\ fc_pc' = "loop") =>
        /\ connected \subseteq connected'
        /\ Cardinality(connected') = Cardinality(connected) + 1
        /\ (connected' \ connected) \subseteq to_check
        /\ to_check' \cap connected' = {}

C20_Terminates ==
    /\ []C20_Frontier
    /\ [][C20_IterationStep]_vars
    /\ (fc_pc = "loop") ~> (fc_pc = "done" /\ to_check = {})

\* a call has returned after visiting every triangle of a mesh of three or more
C20_Witness ==
    /\ Returned
    /\ to_check = {}
    /\ NumTriangles >= 3
    /\ connected = Triangles

\* ======================================================================
\* Ties in the pick scan (specification SpecPick)
\* ======================================================================
\* the triangles whose valid hit is not farther than any other valid hit
NearestHits(ray) ==
    { t \in ValidHits(ray) :
        \A o \in ValidHits(ray) : ~HitLess(HitOf(ray, o), HitOf(ray, t)) }

\* C21: when two or more triangles have exactly the same minimal hit distance
\* t, the pick returns the one with the lowest index in storage order.
C21_TieLowestIndex ==
    last_op.name = "click" =>
        LET ray == Rays[last_op.ray]
        IN  Cardinality(NearestHits(ray)) >= 2 =>
                /\ closest_triangle \in NearestHits(ray)
                /\ \A t \in NearestHits(ray) : closest_triangle <= t

\* a click on the common edge of two triangles: both are hit at the same t
C21_Witness ==
    /\ last_op.name = "click"
    /\ Cardinality(NearestHits(Rays[last_op.ray])) >= 2
    /\ closest_triangle \in NearestHits(Rays[last_op.ray])
    /\ \E t \in NearestHits(Rays[last_op.ray]) : closest_triangle < t

\* ======================================================================
\* Regions as faces (specification SpecGroup)
\* ======================================================================
\* C22: regions partition the mesh: when a call returns for a seed that lies in
\* the region the first call returned, it returns that same region, so the
\* region does not depend on which of its triangles was the seed.
C22_RegionsPartition ==
    (Returned /\ fc_start \in fc_prev.result) => connected = fc_prev.result

\* ======================================================================
\* The widget toolkit (main_gui.py)
\* ======================================================================
\* The variables of the viewer, which no widget touches.
renderVars == << model, hlVars, ticks, closest_triangle, last_op, last_pick, fcVars,
                 ctorVars, camVars, model_rotation_x, loopVars >>

NoFile == [name |-> <<>>, unit |-> 1, vectors |-> <<>>, normals |-> <<>>,
           solid |-> [kind |-> "open", pts |-> <<>>]]

\* pygame.Rect(x, y, w, h) and Rect.collidepoint: the left and top edges belong
\* to the rectangle, the right and bottom edges do not.
Rect(x, y, w, h) == [x |-> x, y |-> y, w |-> w, h |-> h]
collidepoint(rect, pos) ==
    /\ rect.x <= pos[1] /\ pos[1] < rect.x + rect.w
    /\ rect.y <= pos[2] /\ pos[2] < rect.y + rect.h

\* pygame events: the attributes the handlers read.  button is 1 (left) or 3
\* (right); y is the wheel movement; cursor is the reading of
\* pygame.mouse.get_pos() while the event is handled.
NoPos == << -1, -1 >>
MouseMotion(pos) == [type |-> "MOUSEMOTION", button |-> 0, pos |-> pos, y |-> 0]
MouseDown(button, pos) == [type |-> "MOUSEBUTTONDOWN", button |-> button, pos |-> pos, y |-> 0]
MouseUp(button, pos) == [type |-> "MOUSEBUTTONUP", button |-> button, pos |-> pos, y |-> 0]
MouseWheel(y, cursor) == [type |-> "MOUSEWHEEL", button |-> 0, pos |-> cursor, y |-> y]
KeyDown == [type |-> "KEYDOWN", button |-> 0, pos |-> NoPos, y |-> 0]

\* ----------------------------------------------------------- GUIComponent
\* GUIComponent.__init__ (lines 35-40)
GUIComponent(x, y, width, height) ==
    [rect |-> Rect(x, y, width, height), visible |-> TRUE, enabled |-> TRUE,
     hover |-> FALSE, clicked |-> FALSE]

\* Variant: the release does not test the position of the cursor.
GUIComponent_handle_event_AnyRelease(self, event) ==
    LET quiet == [self |-> self, consumed |-> FALSE, on_click |-> FALSE]
    IN  IF ~self.visible \/ ~self.enabled THEN quiet
        ELSE IF event.type = "MOUSEMOTION"
        THEN [quiet EXCEPT !.self.hover = collidepoint(self.rect, event.pos)]
        ELSE IF event.type = "MOUSEBUTTONDOWN"
        THEN IF event.button = 1 /\ collidepoint(self.rect, event.pos)
             THEN [self |-> [self EXCEPT !.clicked = TRUE], consumed |-> TRUE, on_click |-> FALSE]
             ELSE quiet
        ELSE IF event.type = "MOUSEBUTTONUP"
        THEN IF event.button = 1 /\ self.clicked
             THEN [self |-> [self EXCEPT !.clicked = FALSE], consumed |-> TRUE, on_click |-> TRUE]
             ELSE quiet
        ELSE quiet

\* GUIComponent.handle_event (lines 42-62): the component afterwards, the
\* value returned and whether self.on_click() was called.
GUIComponent_handle_event(self, event) ==
    LET quiet == [self |-> self, consumed |-> FALSE, on_click |-> FALSE]
    IN  IF ~self.visible \/ ~self.enabled THEN quiet
        ELSE IF event.type = "MOUSEMOTION"
        THEN [quiet EXCEPT !.self.hover = collidepoint(self.rect, event.pos)]
        ELSE IF event.type = "MOUSEBUTTONDOWN"
        THEN IF event.button = 1 /\ collidepoint(self.rect, event.pos)
             THEN [self |-> [self EXCEPT !.clicked = TRUE], consumed |-> TRUE, on_click |-> FALSE]
             ELSE quiet
        ELSE IF event.type = "MOUSEBUTTONUP"
        THEN IF event.button = 1 /\ self.clicked
             THEN IF collidepoint(self.rect, event.pos)
                  THEN [self |-> [self EXCEPT !.clicked = FALSE], consumed |-> TRUE,
                        on_click |-> TRUE]
                  ELSE [self |-> [self EXCEPT !.clicked = FALSE], consumed |-> FALSE,
                        on_click |-> FALSE]
             ELSE quiet
        ELSE quiet

\* A component at (10,10), 20 wide and 10 high, and the events it is handed:
\* at its top left corner (inside) and on its right edge (outside).
ComponentIn == << 10, 10 >>
ComponentOut == << 30, 19 >>
ComponentEvents ==
    { MouseMotion(p) : p \in {ComponentIn, ComponentOut} }
    \cup { MouseDown(1, p) : p \in {ComponentIn, ComponentOut} }
    \cup { MouseUp(1, p) : p \in {ComponentIn, ComponentOut} }
    \cup { MouseDown(3, ComponentIn), MouseUp(3, ComponentIn), KeyDown }

InitComponent ==
    /\ NoRender({NoFile})
    /\ component = GUIComponent(10, 10, 20, 10)
    /\ radio_group = NoWidget
    /\ menu_bar = NoWidget
    /\ dropdown = NoWidget
    /\ slider = NoWidget
    /\ gallery = NoWidget
    /\ app = NoWidget
    /\ gui_log = <<>>
    /\ gui_last = NoCall

\* component.handle_event(event), on_click being the base method (lines 64-66)
Component_handle_event ==
    \E event \in ComponentEvents :
        LET r == GUIComponent_handle_event(component, event)
        IN  /\ Len(gui_log) < MaxEvents
            /\ component' = r.self
            /\ gui_log' = Append(gui_log, [event |-> event,
                                           active |-> component.visible /\ component.enabled])
            /\ gui_last' = [event |-> event, consumed |-> r.consumed,
                            calls |-> IF r.on_click THEN << "on_click" >> ELSE <<>>]
            /\ UNCHANGED << renderVars, radio_group, menu_bar, dropdown, slider, gallery, app >>

\* The owner of a component assigns its public attributes visible and enabled.
Component_SetVisible ==
    /\ component' = [component EXCEPT !.visible = ~@]
    /\ UNCHANGED << renderVars, radio_group, menu_bar, dropdown, slider, gallery, app,
                    gui_log, gui_last >>

Component_SetEnabled ==
    /\ component' = [component EXCEPT !.enabled = ~@]
    /\ UNCHANGED << renderVars, radio_group, menu_bar, dropdown, slider, gallery, app,
                    gui_log, gui_last >>

NextComponent == Component_handle_event \/ Component_SetVisible \/ Component_SetEnabled

SpecComponent == InitComponent /\ [][NextComponent]_vars

\* ----------------------------------------------------------------------
\* Properties of GUIComponent (specification SpecComponent)
\* ----------------------------------------------------------------------
LeftPress(entry) == entry.event.type = "MOUSEBUTTONDOWN" /\ entry.event.button = 1
LeftRelease(entry) == entry.event.type = "MOUSEBUTTONUP" /\ entry.event.button = 1
Within(rect, entry) ==
    /\ entry.event.pos[1] \in rect.x .. (rect.x + rect.w - 1)
    /\ entry.event.pos[2] \in rect.y .. (rect.y + rect.h - 1)

\* Among the events the component was handed while visible and enabled, a
\* left press inside its rectangle has no left release after it.
PressPending(log, rect) ==
    \E i \in 1..Len(log) :
        /\ log[i].active /\ LeftPress(log[i]) /\ Within(rect, log[i])
        /\ \A j \in (i + 1)..Len(log) : ~(log[j].active /\ LeftRelease(log[j]))

\* C25: on_click is called exactly by a left release inside the rectangle that
\* follows a left press inside it, the component being visible and enabled at
\* both; a release outside clears the pressed state without calling on_click;
\* an invisible or disabled component consumes nothing, changes nothing and
\* calls nothing.
C25_EventStep ==
    gui_log' # gui_log =>
        LET entry == gui_log'[Len(gui_log')]
            called == gui_last'.calls # <<>>
        IN  /\ called <=> /\ entry.active /\ LeftRelease(entry)
                          /\ Within(component.rect, entry)
                          /\ PressPending(gui_log, component.rect)
            /\ Len(gui_last'.calls) <= 1
            /\ (entry.active /\ LeftRelease(entry) /\ ~Within(component.rect, entry))
                   => (~component'.clicked /\ ~called)
            /\ ~entry.active
                   => (~gui_last'.consumed /\ component' = component /\ ~called)

C25_ClickOnRelease == [][C25_EventStep]_vars

\* a press inside followed by a release inside called on_click
C25_Witness ==
    /\ component # NoWidget
    /\ gui_last.calls = << "on_click" >>
    /\ Len(gui_log) >= 2
    /\ LeftPress(gui_log[Len(gui_log) - 1])

\* ------------------------------------------------------- RadioButtonGroup
\* RadioButton.__init__ (lines 1236-1250): a GUIComponent with a selected flag;
\* its callback is the group's _on_radio_click.
RadioButton(x, y, width, height, selected) ==
    GUIComponent(x, y, width, height) @@ [selected |-> selected]

\* RadioButtonGroup.__init__ (lines 1280-1295): one button of height 25 per
\* option, the one at selected_index selected.
RadioButtonGroup(x, y, width, options, selected_index) ==
    GUIComponent(x, y, width, Len(options) * 25)
    @@ [options |-> options, selected_index |-> selected_index,
        radio_buttons |-> [i \in 1..Len(options) |->
                              RadioButton(x, y + (i - 1) * 25, width, 25,
                                          (i - 1) = selected_index)]]

\* The buttons after `for r in self.radio_buttons: r.selected = False` and
\* `radio.selected = True` for the button at list position i (0-based).
SelectOnly(buttons, i) ==
    [k \in 1..Len(buttons) |-> [buttons[k] EXCEPT !.selected = (k - 1 = i)]]

\* RadioButtonGroup._on_radio_click (lines 1297-1317): the first button that
\* has hover set and is not selected becomes the selection.
RadioButtonGroup_on_radio_click(self, calls) ==
    LET cand == { k \in 1..Len(self.radio_buttons) :
                    self.radio_buttons[k].hover /\ ~self.radio_buttons[k].selected }
    IN  IF cand = {} THEN [self |-> self, calls |-> calls]
        ELSE LET k == CHOOSE c \in cand : \A o \in cand : c <= o
             IN  [self |-> [self EXCEPT !.radio_buttons = SelectOnly(@, k - 1),
                                        !.selected_index = k - 1],
                  calls |-> Append(calls, self.options[k])]

\* Variant: the press selects the button without deselecting the others.
RadioButtonGroup_press_KeepOthers(self, event) ==
    LET hit == { k \in 1..Len(self.radio_buttons) :
                   /\ collidepoint(self.radio_buttons[k].rect, event.pos)
                   /\ ~self.radio_buttons[k].selected }
    IN  IF event.type = "MOUSEBUTTONDOWN" /\ event.button = 1 /\ hit # {}
        THEN LET k == CHOOSE c \in hit : \A o \in hit : c <= o
             IN  [self |-> [self EXCEPT !.radio_buttons[k].selected = TRUE,
                                        !.selected_index = k - 1],
                  consumed |-> TRUE, calls |-> << self.options[k] >>]
        ELSE [self |-> self, consumed |-> FALSE, calls |-> <<>>]

\* The first part of RadioButtonGroup.handle_event (lines 1324-1334): a left
\* press on a button that is not selected selects it and returns True.
RadioButtonGroup_press(self, event) ==
    LET hit == { k \in 1..Len(self.radio_buttons) :
                   /\ collidepoint(self.radio_buttons[k].rect, event.pos)
                   /\ ~self.radio_buttons[k].selected }
    IN  IF event.type = "MOUSEBUTTONDOWN" /\ event.button = 1 /\ hit # {}
        THEN LET k == CHOOSE c \in hit : \A o \in hit : c <= o
             IN  [self |-> [self EXCEPT !.radio_buttons = SelectOnly(@, k - 1),
                                        !.selected_index = k - 1],
                  consumed |-> TRUE, calls |-> << self.options[k] >>]
        ELSE [self |-> self, consumed |-> FALSE, calls |-> <<>>]

\* `for radio in self.radio_buttons: radio.handle_event(event)` (lines
\* 1337-1338) from button k on; RadioButton.on_click (lines 1252-1254) calls
\* _on_radio_click when the button is not selected.
RECURSIVE RadioButtons_handle_event(_, _, _, _)
RadioButtons_handle_event(self, event, k, calls) ==
    IF k > Len(self.radio_buttons) THEN [self |-> self, calls |-> calls]
    ELSE LET r == GUIComponent_handle_event(self.radio_buttons[k], event)
             s1 == [self EXCEPT !.radio_buttons[k] = r.self]
             s2 == IF r.on_click /\ ~r.self.selected
                   THEN RadioButtonGroup_on_radio_click(s1, calls)
                   ELSE [self |-> s1, calls |-> calls]
         IN  RadioButtons_handle_event(s2.self, event, k + 1, s2.calls)

\* RadioButtonGroup.handle_event (lines 1319-1341)
RadioButtonGroup_handle_event(self, event) ==
    IF ~self.visible \/ ~self.enabled
    THEN [self |-> self, consumed |-> FALSE, calls |-> <<>>]
    ELSE LET p == RadioButtonGroup_press(self, event)
         IN  IF p.consumed THEN p
             ELSE LET h == RadioButtons_handle_event(self, event, 1, <<>>)
                  IN  [self |-> h.self, consumed |-> FALSE, calls |-> h.calls]

\* The group of PropertyPanel._create_elements (lines 1441-1443), placed at
\* (10,100) and 170 wide, and the mouse events it is handed: on each button,
\* and on the right edge of the group.
RadioOptions == << "Option 1", "Option 2", "Option 3" >>
RadioPositions == { << 10, 100 + 25 * i >> : i \in 0..(Len(RadioOptions) - 1) } \cup { << 180, 100 >> }
RadioEvents ==
    { MouseMotion(p) : p \in RadioPositions }
    \cup { MouseDown(1, p) : p \in RadioPositions }
    \cup { MouseUp(1, p) : p \in RadioPositions }
    \cup { MouseDown(3, << 10, 100 >>), MouseUp(3, << 10, 100 >>) }

InitRadio ==
    /\ NoRender({NoFile})
    /\ \E selected_index \in 0..(Len(RadioOptions) - 1) :
          radio_group = RadioButtonGroup(10, 100, 170, RadioOptions, selected_index)
    /\ component = NoWidget
    /\ menu_bar = NoWidget
    /\ dropdown = NoWidget
    /\ slider = NoWidget
    /\ gallery = NoWidget
    /\ app = NoWidget
    /\ gui_log = <<>>
    /\ gui_last = NoCall

\* radio_group.handle_event(event); calls lists the options handed to the
\* group's callback.
Radio_handle_event ==
    \E event \in RadioEvents :
        LET r == RadioButtonGroup_handle_event(radio_group, event)
        IN  /\ radio_group' = r.self
            /\ gui_last' = [event |-> event, consumed |-> r.consumed, calls |-> r.calls]
            /\ UNCHANGED << renderVars, component, menu_bar, dropdown, slider, gallery, app,
                            gui_log >>

SpecRadio == InitRadio /\ [][Radio_handle_event]_vars

\* ----------------------------------------------------------------------
\* Properties of RadioButtonGroup (specification SpecRadio)
\* ----------------------------------------------------------------------
SelectedButtons(g) == { k \in 1..Len(g.radio_buttons) : g.radio_buttons[k].selected }

\* C23: exactly one radio button is selected and selected_index is its
\* position; an event calls the group's callback at most once, with the newly
\* selected option, and exactly when the selection changes.
C23_OneSelected == SelectedButtons(radio_group) = { radio_group.selected_index + 1 }

C23_CallbackStep ==
    gui_last' # gui_last \/ radio_group' # radio_group =>
        /\ Len(gui_last'.calls) <= 1
        /\ gui_last'.calls # <<>> <=> SelectedButtons(radio_group') # SelectedButtons(radio_group)
        /\ gui_last'.calls # <<>> =>
              gui_last'.calls[1] = RadioOptions[radio_group'.selected_index + 1]

C23_ExactlyOne == []C23_OneSelected /\ [][C23_CallbackStep]_vars

\* a release on a button that was pressed while it was selected, and has lost
\* the selection since, selected it again through on_click
C23_Witness ==
    /\ radio_group # NoWidget
    /\ gui_last.event.type = "MOUSEBUTTONUP"
    /\ gui_last.calls # <<>>
    /\ C23_OneSelected

\* ----------------------------------------------------------------- MenuBar
\* The menus MainApplication.init_gui adds (lines 1972-2005): title and item
\* texts; the callback of an item is named by its text.
AppMenus ==
    << [title |-> "Settings",
        items |-> << "Preferences", "Display Settings", "Audio Settings",
                     "Keyboard Shortcuts" >>],
       [title |-> "File",
        items |-> << "New Project", "Open Project", "Save Project", "Save As...",
                     "Import...", "Export...", "Recent Projects", "Exit" >>],
       [title |-> "Edit",
        items |-> << "Undo", "Redo", "Cut", "Copy", "Paste", "Delete", "Select All",
                     "Find" >>] >>

\* len(title) for the titles of AppMenus
TitleLen(title) ==
    IF title = "Settings" THEN Len(<< "S", "e", "t", "t", "i", "n", "g", "s" >>)
    ELSE Len(<< "F", "i", "l", "e" >>)

\* MenuBar._rebuild_menu_buttons (lines 463-473): the x of button i (1-based)
RECURSIVE MenuButtonX(_, _, _)
MenuButtonX(x, menus, i) ==
    IF i = 1 THEN x + 5
    ELSE MenuButtonX(x, menus, i - 1) + TitleLen(menus[i - 1].title) * 8 + 16

\* MenuBar.__init__ (lines 442-456) followed by add_menu (lines 458-461) for
\* every menu of the list.
MenuBar(x, y, width, height, menus) ==
    GUIComponent(x, y, width, height)
    @@ [menus |-> menus,
        menu_buttons |-> [i \in 1..Len(menus) |->
                             GUIComponent(MenuButtonX(x, menus, i), y,
                                          TitleLen(menus[i].title) * 8 + 16, height)],
        active_menu_index |-> -1,
        dropdown_items |-> <<>>,
        menu_item_height |-> 25,
        dropdown_width |-> 150]

\* MenuBar._create_dropdown_items (lines 484-504)
MenuBar_create_dropdown_items(self, menu_index) ==
    IF 0 <= menu_index /\ menu_index < Len(self.menus)
    THEN LET items == self.menus[menu_index + 1].items
             button == self.menu_buttons[menu_index + 1]
             start_y == self.rect.y + self.rect.h
         IN  [i \in 1..Len(items) |->
                 GUIComponent(button.rect.x, start_y + (i - 1) * self.menu_item_height,
                              self.dropdown_width, self.menu_item_height)
                 @@ [text |-> items[i]]]
    ELSE <<>>

\* MenuBar._toggle_menu (lines 475-482)
MenuBar_toggle_menu(self, menu_index) ==
    IF self.active_menu_index = menu_index
    THEN [self EXCEPT !.active_menu_index = -1, !.dropdown_items = <<>>]
    ELSE [self EXCEPT !.active_menu_index = menu_index,
                      !.dropdown_items = MenuBar_create_dropdown_items(self, menu_index)]

\* `for item in self.dropdown_items: if item.handle_event(event): return True`
\* (lines 511-513) from item k on.  MenuItem.on_click runs item_callback
\* (lines 497-500): the callback of the item, then the menu is closed.
RECURSIVE MenuItems_handle_event(_, _, _)
MenuItems_handle_event(self, event, k) ==
    IF k > Len(self.dropdown_items) THEN [self |-> self, consumed |-> FALSE, calls |-> <<>>]
    ELSE LET r == GUIComponent_handle_event(self.dropdown_items[k], event)
             s1 == [self EXCEPT !.dropdown_items[k] = r.self]
         IN  IF r.on_click
             THEN [self |-> [s1 EXCEPT !.active_menu_index = -1, !.dropdown_items = <<>>],
                   consumed |-> TRUE, calls |-> << r.self.text >>]
             ELSE IF r.consumed THEN [self |-> s1, consumed |-> TRUE, calls |-> <<>>]
             ELSE MenuItems_handle_event(s1, event, k + 1)

\* `for button in self.menu_buttons: if button.handle_event(event): return
\* True` (lines 516-518) from button k on.  MenuButton.on_click (lines 435-437)
\* calls _toggle_menu with the index of the button.
RECURSIVE MenuButtons_handle_event(_, _, _)
MenuButtons_handle_event(self, event, k) ==
    IF k > Len(self.menu_buttons) THEN [self |-> self, consumed |-> FALSE, calls |-> <<>>]
    ELSE LET r == GUIComponent_handle_event(self.menu_buttons[k], event)
             s1 == [self EXCEPT !.menu_buttons[k] = r.self]
         IN  IF r.on_click
             THEN [self |-> MenuBar_toggle_menu(s1, k - 1), consumed |-> TRUE, calls |-> <<>>]
             ELSE IF r.consumed THEN [self |-> s1, consumed |-> TRUE, calls |-> <<>>]
             ELSE MenuButtons_handle_event(s1, event, k + 1)

\* `Close dropdown if clicking outside` (lines 520-529)
MenuBar_close_outside(self, event) ==
    LET menu_area == Rect(self.rect.x, self.rect.y, self.dropdown_width,
                          self.rect.h + Len(self.dropdown_items) * self.menu_item_height)
    IN  IF /\ event.type = "MOUSEBUTTONDOWN"
           /\ self.active_menu_index # -1
           /\ ~collidepoint(menu_area, event.pos)
        THEN [self |-> [self EXCEPT !.active_menu_index = -1, !.dropdown_items = <<>>],
              consumed |-> TRUE, calls |-> <<>>]
        ELSE [self |-> self, consumed |-> FALSE, calls |-> <<>>]

\* MenuBar.handle_event (lines 506-531)
MenuBar_handle_event(self, event) ==
    IF ~self.visible \/ ~self.enabled
    THEN [self |-> self, consumed |-> FALSE, calls |-> <<>>]
    ELSE LET i == MenuItems_handle_event(self, event, 1)
         IN  IF i.consumed THEN i
             ELSE LET b == MenuButtons_handle_event(i.self, event, 1)
                  IN  IF b.consumed THEN b
                      ELSE MenuBar_close_outside(b.self, event)

\* Cursor positions: on the three titles, on the bar right of them, on the
\* first row below the bar at x = 140 (inside every dropdown) and at x = 2
\* (left of every dropdown), on the second row at x = 200 (inside the File
\* and Edit dropdowns only), and far from the bar.
MenuPositions ==
    { << 5, 0 >>, << 85, 0 >>, << 133, 0 >>, << 600, 0 >>,
      << 140, 30 >>, << 2, 30 >>, << 200, 60 >>, << 600, 300 >> }
MenuEvents ==
    { MouseDown(1, p) : p \in MenuPositions }
    \cup { MouseUp(1, p) : p \in MenuPositions }
    \cup { MouseDown(3, << 600, 300 >>), MouseMotion(<< 140, 30 >>), KeyDown }

InitMenu ==
    /\ NoRender({NoFile})
    /\ menu_bar = MenuBar(0, 0, 1200, 25, AppMenus)
    /\ component = NoWidget
    /\ radio_group = NoWidget
    /\ dropdown = NoWidget
    /\ slider = NoWidget
    /\ gallery = NoWidget
    /\ app = NoWidget
    /\ gui_log = <<>>
    /\ gui_last = NoCall

\* menu_bar.handle_event(event); calls lists the item callbacks that ran
Menu_handle_event ==
    \E event \in MenuEvents :
        LET r == MenuBar_handle_event(menu_bar, event)
        IN  /\ menu_bar' = r.self
            /\ gui_last' = [event |-> event, consumed |-> r.consumed, calls |-> r.calls]
            /\ UNCHANGED << renderVars, component, radio_group, dropdown, slider, gallery,
                            app, gui_log >>

SpecMenu == InitMenu /\ [][Menu_handle_event]_vars

\* ----------------------------------------------------------------------
\* Properties of MenuBar (specification SpecMenu)
\* ----------------------------------------------------------------------
InsideRect(rect, pos) ==
    /\ pos[1] \in rect.x .. (rect.x + rect.w - 1)
    /\ pos[2] \in rect.y .. (rect.y + rect.h - 1)

ItemTexts(bar) == [i \in 1..Len(bar.dropdown_items) |-> bar.dropdown_items[i].text]

\* at most one menu is open and the dropdown shows its items
MenuConsistent(bar) ==
    /\ bar.active_menu_index \in {-1} \cup 0..(Len(bar.menus) - 1)
    /\ ItemTexts(bar) = IF bar.active_menu_index = -1 THEN <<>>
                        ELSE bar.menus[bar.active_menu_index + 1].items

\* the left release that completes a click on title k (1-based)
TitleClicked(bar, event, k) ==
    /\ event.type = "MOUSEBUTTONUP" /\ event.button = 1
    /\ bar.menu_buttons[k].clicked
    /\ InsideRect(bar.menu_buttons[k].rect, event.pos)

\* the left release that completes a click on item j of the open dropdown
ItemClicked(bar, event, j) ==
    /\ event.type = "MOUSEBUTTONUP" /\ event.button = 1
    /\ bar.dropdown_items[j].clicked
    /\ InsideRect(bar.dropdown_items[j].rect, event.pos)

\* the position is neither on the bar nor on a row of the open dropdown
OutsideMenu(bar, pos) ==
    /\ ~InsideRect(bar.rect, pos)
    /\ \A j \in 1..Len(bar.dropdown_items) : ~InsideRect(bar.dropdown_items[j].rect, pos)

C24_TitleStep ==
    \A k \in 1..Len(menu_bar.menus) :
        TitleClicked(menu_bar, gui_last'.event, k) =>
            menu_bar'.active_menu_index =
                IF menu_bar.active_menu_index = k - 1 THEN -1 ELSE k - 1

C24_ItemStep ==
    \A j \in 1..Len(menu_bar.dropdown_items) :
        ItemClicked(menu_bar, gui_last'.event, j) =>
            /\ gui_last'.calls = << menu_bar.dropdown_items[j].text >>
            /\ menu_bar'.active_menu_index = -1

C24_OutsideStep ==
    (/\ gui_last'.event.type = "MOUSEBUTTONDOWN"
     /\ menu_bar.active_menu_index # -1
     /\ OutsideMenu(menu_bar, gui_last'.event.pos))
        => menu_bar'.active_menu_index = -1

\* C24: at most one menu is open, active_menu_index is -1 or a valid index and
\* dropdown_items are the items of the active menu; a click on the open menu's
\* title closes it, a click on another title switches to it, a click on an item
\* runs its callback and closes the menu, and a mouse press outside the menu
\* closes it.
C24_OneMenu ==
    /\ []MenuConsistent(menu_bar)
    /\ [][C24_TitleStep /\ C24_ItemStep /\ C24_OutsideStep]_vars

\* ------------------------------------------------------------ DropdownMenu
\* DropdownMenu.__init__ (lines 155-173)
DropdownMenu(x, y, width, height, options) ==
    GUIComponent(x, y, width, height)
    @@ [options |-> options, selected_index |-> 0, expanded |-> FALSE,
        item_height |-> height, expanded_height |-> height * Len(options)]

\* DropdownMenu.handle_event (lines 175-200); calls lists the options handed
\* to the callback.
DropdownMenu_handle_event(self, event) ==
    LET quiet == [self |-> self, consumed |-> FALSE, calls |-> <<>>]
        expanded_rect == Rect(self.rect.x, self.rect.y, self.rect.w, self.expanded_height)
        relative_y == event.pos[2] - self.rect.y
        clicked_index == relative_y \div self.item_height
    IN  IF ~self.visible \/ ~self.enabled THEN quiet
        ELSE IF event.type = "MOUSEBUTTONDOWN" /\ event.button = 1
        THEN IF collidepoint(self.rect, event.pos)
             THEN [self |-> [self EXCEPT !.expanded = ~@], consumed |-> TRUE, calls |-> <<>>]
             ELSE IF self.expanded
             THEN IF collidepoint(expanded_rect, event.pos)
                  THEN IF 0 <= clicked_index /\ clicked_index < Len(self.options)
                       THEN [self |-> [self EXCEPT !.selected_index = clicked_index,
                                                   !.expanded = FALSE],
                             consumed |-> TRUE,
                             calls |-> << self.options[clicked_index + 1] >>]
                       ELSE quiet
                  ELSE [self |-> [self EXCEPT !.expanded = FALSE], consumed |-> FALSE,
                        calls |-> <<>>]
             ELSE quiet
        ELSE quiet

\* DropdownMenu.draw_dropdowns (lines 236-239): the rectangle in which option
\* i (0-based) is drawn while the menu is expanded.
DropdownMenu_option_rect(self, i) ==
    Rect(self.rect.x, self.rect.y + i * self.item_height, self.rect.w, self.item_height)

\* The dropdown of PropertyPanel._create_elements (lines 1449-1450), placed at
\* (10,200), 170 wide and 25 high, and the events it is handed: at the top
\* left corner of each drawn row, at the bottom right corner of the last row,
\* and just below the rows.
DropdownOptions == << "Text", "Option A", "Option B" >>
DropdownPositions ==
    { << 10, 200 + 25 * i >> : i \in 0..(Len(DropdownOptions) - 1) }
    \cup { << 179, 274 >>, << 10, 275 >> }
DropdownEvents ==
    { MouseDown(1, p) : p \in DropdownPositions }
    \cup { MouseUp(1, << 10, 225 >>), MouseDown(3, << 10, 225 >>), MouseMotion(<< 10, 225 >>) }

InitDropdown ==
    /\ NoRender({NoFile})
    /\ dropdown = DropdownMenu(10, 200, 170, 25, DropdownOptions)
    /\ component = NoWidget
    /\ radio_group = NoWidget
    /\ menu_bar = NoWidget
    /\ slider = NoWidget
    /\ gallery = NoWidget
    /\ app = NoWidget
    /\ gui_log = <<>>
    /\ gui_last = NoCall

\* dropdown.handle_event(event)
Dropdown_handle_event ==
    \E event \in DropdownEvents :
        LET r == DropdownMenu_handle_event(dropdown, event)
        IN  /\ Len(gui_log) < MaxEvents
            /\ dropdown' = r.self
            /\ gui_log' = Append(gui_log, [event |-> event, active |-> TRUE])
            /\ gui_last' = [event |-> event, consumed |-> r.consumed, calls |-> r.calls]
            /\ UNCHANGED << renderVars, component, radio_group, menu_bar, slider, gallery,
                            app >>

SpecDropdown == InitDropdown /\ [][Dropdown_handle_event]_vars

\* ----------------------------------------------------------------------
\* Properties of DropdownMenu (specification SpecDropdown)
\* ----------------------------------------------------------------------
C26_ValidIndex == dropdown.selected_index \in 0..(Len(dropdown.options) - 1)

\* a left press on the drawn row of option i of the expanded menu selects
\* option i, collapses the menu and hands the option to the callback
C26_RowStep ==
    \A i \in 0..(Len(dropdown.options) - 1) :
        (/\ gui_log' # gui_log
         /\ dropdown.expanded
         /\ gui_last'.event.type = "MOUSEBUTTONDOWN" /\ gui_last'.event.button = 1
         /\ InsideRect(DropdownMenu_option_rect(dropdown, i), gui_last'.event.pos))
            => /\ dropdown'.selected_index = i
               /\ ~dropdown'.expanded
               /\ gui_last'.calls = << dropdown.options[i + 1] >>

\* C26: selected_index is always a valid index, and every option, the first
\* included, is selected by expanding the menu and clicking the row the option
\* is drawn in, after which the menu is collapsed and the callback has
\* received the option.
C26_EveryOptionSelectable == []C26_ValidIndex /\ [][C26_RowStep]_vars

\* ------------------------------------------------------------------ Slider
\* Python floats are binary floating point numbers: every arithmetic result is
\* the exact result rounded to the nearest number with a significand of
\* MantBits bits, ties going to the even significand.  A float is kept as the
\* fraction num/den it stands for, den > 0.
Frac(num, den) == [num |-> num, den |-> den]
FracLeq(a, b) == a.num * b.den <= b.num * a.den
FracSame(a, b) == a.num * b.den = b.num * a.den

Pow2(k) == 2 ^ k

\* n / (d * 2^e) as a pair of integers, for any integer e
Scaled(n, d, e) == IF e >= 0 THEN Frac(n, d * Pow2(e)) ELSE Frac(n * Pow2(-e), d)

\* the element of a set of one element; `Only({ F(v) : v \in { e } })` is
\* F(e) with e evaluated once
Only(S) == CHOOSE x \in S : TRUE

\* the exponent e for which 2^(MantBits-1) <= n / (d * 2^e) < 2^MantBits
RECURSIVE ExponentOf(_, _, _)
ExponentOf(n, d, e) ==
    Only({ IF s.num >= Pow2(MantBits) * s.den THEN ExponentOf(n, d, e + 1)
           ELSE IF s.num < Pow2(MantBits - 1) * s.den THEN ExponentOf(n, d, e - 1)
           ELSE e
           : s \in { Scaled(n, d, e) } })

\* the float sign * n / (d * 2^e) * 2^e with n / (d * 2^e) rounded to the
\* nearest integer, ties to the even one
RoundAt(sign, s, e) ==
    LET m == s.num \div s.den
        rem == s.num % s.den
        mant == IF 2 * rem > s.den THEN m + 1
                ELSE IF 2 * rem = s.den THEN m + (m % 2)
                ELSE m
    IN  IF e >= 0 THEN Frac(sign * mant * Pow2(e), 1)
        ELSE Frac(sign * mant, Pow2(-e))

\* the float nearest to the fraction q
Round(q) ==
    Only({ IF v.num = 0 THEN Frac(0, 1)
           ELSE Only({ Only({ RoundAt(IF v.num < 0 THEN -1 ELSE 1, s, e)
                              : s \in { Scaled(Abs(v.num), v.den, e) } })
                       : e \in { ExponentOf(Abs(v.num), v.den, 0) } })
           : v \in { q } })

\* a + b, a - b, a * b, a / b on floats (p is the pair of a and b, evaluated
\* once)
FloatAdd(a, b) ==
    Only({ Round(Frac(p[1].num * p[2].den + p[2].num * p[1].den, p[1].den * p[2].den))
           : p \in { << a, b >> } })
FloatSub(a, b) ==
    Only({ Round(Frac(p[1].num * p[2].den - p[2].num * p[1].den, p[1].den * p[2].den))
           : p \in { << a, b >> } })
FloatMul(a, b) ==
    Only({ Round(Frac(p[1].num * p[2].num, p[1].den * p[2].den)) : p \in { << a, b >> } })
FloatDiv(a, b) ==
    Only({ IF p[2].num > 0 THEN Round(Frac(p[1].num * p[2].den, p[1].den * p[2].num))
           ELSE Round(Frac(-(p[1].num * p[2].den), p[1].den * (-p[2].num)))
           : p \in { << a, b >> } })

\* int(x): the integer part of a float, rounding towards zero
IntOf(x) ==
    Only({ IF v.num >= 0 THEN v.num \div v.den ELSE -((-v.num) \div v.den) : v \in { x } })

Min(a, b) == IF a < b THEN a ELSE b
Max(a, b) == IF a > b THEN a ELSE b

\* Slider.__init__ (lines 258-275); the three values are floats
Slider(x, y, width, height, min_value, max_value, initial_value) ==
    GUIComponent(x, y, width, height)
    @@ [min_value |-> Round(min_value), max_value |-> Round(max_value),
        value |-> Round(initial_value),
        dragging |-> FALSE, handle_width |-> 20, handle_height |-> height]

\* Slider._get_handle_x (lines 312-316); the division by max_value - min_value
\* raises ZeroDivisionError when the two are equal.
Slider_get_handle_x(self) ==
    LET track_width == self.rect.w - self.handle_width
        span == FloatSub(self.max_value, self.min_value)
    IN  IF span.num = 0 THEN [raised |-> TRUE, x |-> 0]
        ELSE LET relative_value == FloatDiv(FloatSub(self.value, self.min_value), span)
             IN  [raised |-> FALSE,
                  x |-> self.rect.x + IntOf(FloatMul(relative_value, Frac(track_width, 1)))]

\* The value a motion assigns while dragging (lines 294-298); the division by
\* track_width raises ZeroDivisionError when the track has no length.
Slider_drag(self, event) ==
    LET track_width == self.rect.w - self.handle_width
        relative_x == Max(0, Min(track_width,
                                 event.pos[1] - self.rect.x - (self.handle_width \div 2)))
    IN  IF track_width = 0 THEN [raised |-> TRUE, value |-> self.value]
        ELSE [raised |-> FALSE,
              value |-> FloatAdd(self.min_value,
                                 FloatMul(Round(Frac(relative_x, track_width)),
                                          FloatSub(self.max_value, self.min_value)))]

\* Slider.handle_event (lines 277-310); calls lists the values handed to the
\* callback, raised tells that the call ended in an exception.
Slider_handle_event(self, event) ==
    LET quiet == [self |-> self, consumed |-> FALSE, calls |-> <<>>, raised |-> FALSE]
        failed == [quiet EXCEPT !.raised = TRUE]
        handle_rect(hx) == Rect(hx.x, self.rect.y, self.handle_width, self.handle_height)
        pressed(hx) == IF hx.raised THEN failed
                       ELSE IF collidepoint(handle_rect(hx), event.pos)
                       THEN [quiet EXCEPT !.self.dragging = TRUE, !.consumed = TRUE]
                       ELSE quiet
        hovered(hx) == IF hx.raised THEN failed
                       ELSE [quiet EXCEPT !.self.hover =
                                              collidepoint(handle_rect(hx), event.pos)]
    IN  IF ~self.visible \/ ~self.enabled THEN quiet
        ELSE IF event.type = "MOUSEBUTTONDOWN" /\ event.button = 1
        THEN Only({ pressed(hx) : hx \in { Slider_get_handle_x(self) } })
        ELSE IF event.type = "MOUSEBUTTONUP" /\ event.button = 1
        THEN [quiet EXCEPT !.self.dragging = FALSE]
        ELSE IF event.type = "MOUSEMOTION" /\ self.dragging
        THEN Only({ IF d.raised THEN failed
                    ELSE [self |-> [self EXCEPT !.value = d.value], consumed |-> TRUE,
                          calls |-> << d.value >>, raised |-> FALSE]
                    : d \in { Slider_drag(self, event) } })
        ELSE IF event.type = "MOUSEMOTION"
        THEN Only({ hovered(hx) : hx \in { Slider_get_handle_x(self) } })
        ELSE quiet

\* Sliders at (10,50), 148 wide and 20 high (a track of 128): the one of the
\* property panel (0.0, 2.0, 1.2; line 1434), the default range with the
\* default value (0.0, 1.0, 0.5), a range of negative and positive values
\* whose span needs more bits than a significand holds, and a range of a
\* single value.
SliderSet ==
    { Slider(10, 50, 148, 20, Frac(0, 1), Frac(2, 1), Frac(6, 5)),
      Slider(10, 50, 148, 20, Frac(0, 1), Frac(1, 1), Frac(1, 2)),
      Slider(10, 50, 148, 20, Frac(-Pow2(MantBits), 1), Frac(3, 1), Frac(-Pow2(MantBits), 1)),
      Slider(10, 50, 148, 20, Frac(1, 1), Frac(1, 1), Frac(1, 1)) }

\* Cursor positions: left of the track, on it, right of it, and below it.
SliderXs == { 5, 20, 90, 148, 300 }
SliderEvents ==
    { MouseMotion(<< x, 50 >>) : x \in SliderXs }
    \cup { MouseDown(1, << x, 50 >>) : x \in SliderXs }
    \cup { MouseDown(1, << 90, 70 >>), MouseDown(3, << 90, 50 >>),
           MouseUp(1, << 300, 50 >>), MouseUp(3, << 90, 50 >>), KeyDown }

InitSlider ==
    /\ NoRender({NoFile})
    /\ slider \in SliderSet
    /\ component = NoWidget
    /\ radio_group = NoWidget
    /\ menu_bar = NoWidget
    /\ dropdown = NoWidget
    /\ gallery = NoWidget
    /\ app = NoWidget
    /\ gui_log = <<>>
    /\ gui_last = NoCall

\* slider.handle_event(event); the log keeps the slider the event met
Slider_event ==
    \E event \in SliderEvents :
        \E r \in { Slider_handle_event(slider, event) } :
            /\ Len(gui_log) < MaxEvents
            /\ slider' = r.self
            /\ gui_log' = Append(gui_log, [event |-> event, active |-> TRUE, met |-> slider])
            /\ gui_last' = [event |-> event, consumed |-> r.consumed, calls |-> r.calls,
                            raised |-> r.raised]
            /\ UNCHANGED << renderVars, component, radio_group, menu_bar, dropdown, gallery,
                            app >>

SpecSlider == InitSlider /\ [][Slider_event]_vars

\* ----------------------------------------------------------------------
\* Properties of Slider (specification SpecSlider)
\* ----------------------------------------------------------------------
\* the position is on the handle of slider s: 20 wide, as high as the slider
OnHandle(s, pos) ==
    /\ ~Slider_get_handle_x(s).raised
    /\ pos[1] \in Slider_get_handle_x(s).x .. (Slider_get_handle_x(s).x + 19)
    /\ pos[2] \in s.rect.y .. (s.rect.y + s.rect.h - 1)

\* a left press on the handle has no left release after it
DragPending(log) ==
    \E i \in 1..Len(log) :
        /\ LeftPress(log[i]) /\ OnHandle(log[i].met, log[i].event.pos)
        /\ \A j \in (i + 1)..Len(log) : ~LeftRelease(log[j])

C27_InRange == FracLeq(slider.min_value, slider.value) /\ FracLeq(slider.value, slider.max_value)

C27_ChangeStep ==
    ~FracSame(slider'.value, slider.value) =>
        /\ gui_last'.event.type = "MOUSEMOTION"
        /\ DragPending(gui_log)

\* C27: the value of a slider that starts within [min_value, max_value] stays
\* within it, and changes only at a motion between a press on the handle and
\* the next left release.
C27_ValueBounded == []C27_InRange /\ [][C27_ChangeStep]_vars


\* ----------------------------------------------------------- SurfaceGallery
\* SurfaceItem.__init__ (lines 650-663)
SurfaceItem(x, y, width, height, surface_index) ==
    GUIComponent(x, y, width, height) @@ [surface_index |-> surface_index]

\* SurfaceGallery._create_surface_items (lines 863-879) for surfaces 0..n-1
SurfaceGallery_create_surface_items(x, y, width, needs_scrolling, n) ==
    LET content_width == width - (IF needs_scrolling THEN 15 ELSE 0) - 10
        items_per_row == Max(1, content_width \div 75)
    IN  [k \in 1..n |->
            LET i == k - 1
                row == i \div items_per_row
                col == i % items_per_row
            IN  SurfaceItem(x + 5 + col * 75, y + 25 + 5 + row * 90, 75 - 5, 90 - 5, i)]

\* SurfaceGallery.__init__ (lines 812-861) with n surfaces
SurfaceGallery(x, y, width, n, max_height) ==
    LET items_per_row == Max(1, (width - 20) \div 75)
        rows == (n + items_per_row - 1) \div items_per_row
        full_content_height == rows * 90 + 10
        max_content_height == max_height - 25
        needs_scrolling == full_content_height > max_content_height
        actual_height == IF needs_scrolling THEN 25 + max_content_height
                         ELSE 25 + full_content_height
    IN  GUIComponent(x, y, width, actual_height)
        @@ [title_height |-> 25, item_width |-> 75, item_height |-> 90,
            max_content_height |-> max_content_height,
            needs_scrolling |-> needs_scrolling,
            collapsed |-> FALSE,
            surface_items |-> SurfaceGallery_create_surface_items(x, y, width,
                                                                  needs_scrolling, n),
            scroll_y |-> 0,
            max_scroll |-> Max(0, full_content_height - max_content_height),
            scrollbar_width |-> 15,
            scrollbar_dragging |-> FALSE,
            scrollbar_drag_offset |-> 0,
            expanded_height |-> actual_height,
            collapsed_height |-> 25]

\* SurfaceGallery._get_scrollbar_rect (lines 951-958)
SurfaceGallery_get_scrollbar_rect(self) ==
    Rect(self.rect.x + self.rect.w - self.scrollbar_width, self.rect.y + self.title_height,
         self.scrollbar_width, self.rect.h - self.title_height)

\* SurfaceGallery._get_scrollbar_handle_height (lines 960-966)
SurfaceGallery_get_scrollbar_handle_height(self) ==
    IF self.max_scroll = 0 THEN self.rect.h - self.title_height
    ELSE LET content_ratio == Round(Frac(self.max_content_height,
                                         self.max_content_height + self.max_scroll))
         IN  Max(20, IntOf(FloatMul(Round(Frac(self.rect.h - self.title_height, 1)),
                                    content_ratio)))

\* SurfaceGallery._get_scrollbar_handle_rect (lines 968-984)
SurfaceGallery_get_scrollbar_handle_rect(self) ==
    LET scrollbar_rect == SurfaceGallery_get_scrollbar_rect(self)
        handle_height == SurfaceGallery_get_scrollbar_handle_height(self)
        handle_y == IF self.max_scroll = 0 THEN scrollbar_rect.y
                    ELSE scrollbar_rect.y
                         + IntOf(FloatMul(Round(Frac(self.scroll_y, self.max_scroll)),
                                          Round(Frac(scrollbar_rect.h - handle_height, 1))))
    IN  Rect(scrollbar_rect.x, handle_y, self.scrollbar_width, handle_height)

\* The loop over the surface items (lines 936-949) from item k on: each item
\* is moved up by scroll_y, handed the event and moved back; the loop ends at
\* the first item that consumes the event.  calls lists the surface indices
\* handed to the callback.
RECURSIVE SurfaceItems_handle_event(_, _, _)
SurfaceItems_handle_event(self, event, k) ==
    IF k > Len(self.surface_items)
    THEN [self |-> self, consumed |-> FALSE, calls |-> <<>>]
    ELSE LET item == self.surface_items[k]
             original_y == item.rect.y
         IN  Only({ LET restored == [r.self EXCEPT !.rect.y = original_y]
                        next == [self EXCEPT !.surface_items[k] = restored]
                    IN  IF r.consumed
                        THEN [self |-> next, consumed |-> TRUE,
                              calls |-> IF r.on_click THEN << item.surface_index >>
                                        ELSE <<>>]
                        ELSE SurfaceItems_handle_event(next, event, k + 1)
                    : r \in { GUIComponent_handle_event(
                                  [item EXCEPT !.rect.y = original_y - self.scroll_y],
                                  event) } })

\* SurfaceGallery.handle_event (lines 888-949)
SurfaceGallery_handle_event(self, event) ==
    LET quiet == [self |-> self, consumed |-> FALSE, calls |-> <<>>]
        taken(s) == [self |-> s, consumed |-> TRUE, calls |-> <<>>]
        items(s) == IF ~s.collapsed THEN SurfaceItems_handle_event(s, event, 1)
                    ELSE [self |-> s, consumed |-> FALSE, calls |-> <<>>]
        title_rect == Rect(self.rect.x, self.rect.y, self.rect.w, self.title_height)
        scrollbar_rect == SurfaceGallery_get_scrollbar_rect(self)
    IN  IF ~self.visible \/ ~self.enabled THEN quiet
        ELSE IF event.type = "MOUSEBUTTONDOWN" /\ event.button = 1
        THEN IF collidepoint(title_rect, event.pos)
             THEN taken([self EXCEPT !.collapsed = ~self.collapsed,
                                     !.rect.h = IF ~self.collapsed THEN self.collapsed_height
                                                ELSE self.expanded_height])
             ELSE IF ~self.collapsed /\ self.needs_scrolling
                     /\ collidepoint(scrollbar_rect, event.pos)
             THEN taken([self EXCEPT !.scrollbar_dragging = TRUE,
                                     !.scrollbar_drag_offset =
                                         event.pos[2]
                                         - SurfaceGallery_get_scrollbar_handle_rect(self).y])
             ELSE items(self)
        ELSE IF event.type = "MOUSEBUTTONUP" /\ event.button = 1
        THEN items([self EXCEPT !.scrollbar_dragging = FALSE])
        ELSE IF event.type = "MOUSEMOTION" /\ self.scrollbar_dragging
        THEN LET handle_height == SurfaceGallery_get_scrollbar_handle_height(self)
                 new_handle_y == event.pos[2] - self.scrollbar_drag_offset
                 min_y == scrollbar_rect.y
                 max_y == scrollbar_rect.y + scrollbar_rect.h - handle_height
                 handle_y == Max(min_y, Min(max_y, new_handle_y))
                 scroll_ratio == IF max_y > min_y THEN Round(Frac(handle_y - min_y, max_y - min_y))
                                 ELSE Frac(0, 1)
             IN  taken([self EXCEPT !.scroll_y =
                            IntOf(FloatMul(scroll_ratio, Round(Frac(self.max_scroll, 1))))])
        ELSE IF event.type = "MOUSEWHEEL" /\ ~self.collapsed
        THEN LET content_rect == Rect(self.rect.x, self.rect.y + self.title_height,
                                      self.rect.w, self.rect.h - self.title_height)
             IN  IF collidepoint(content_rect, event.pos)
                 THEN taken([self EXCEPT !.scroll_y =
                                Max(0, Min(self.max_scroll, self.scroll_y + (-event.y) * 30))])
                 ELSE items(self)
        ELSE items(self)

\* Galleries as the assets panel builds them (max_height 250, line 1606), 100
\* wide at (0,100): one of three surfaces in a column, which scrolls (three
\* rows need 280 pixels, 225 are shown), and one of two surfaces, which does
\* not.
GallerySet == { SurfaceGallery(0, 100, 100, 3, 250), SurfaceGallery(0, 100, 100, 2, 250) }

\* Events: presses on the title, on the scrollbar and on the first item,
\* releases over the first item and away from the gallery, motions along the
\* scrollbar and over the first item, wheel turns with the cursor over the
\* content and away from it, and a key.
GalleryEvents ==
    { MouseDown(1, << 50, 110 >>), MouseDown(1, << 90, 130 >>), MouseDown(1, << 20, 140 >>),
      MouseUp(1, << 20, 140 >>), MouseUp(1, << 500, 500 >>),
      MouseMotion(<< 90, 160 >>), MouseMotion(<< 90, 400 >>), MouseMotion(<< 20, 140 >>),
      MouseWheel(-1, << 20, 140 >>), MouseWheel(1, << 20, 140 >>),
      MouseWheel(-1, << 500, 500 >>), KeyDown }

InitGallery ==
    /\ NoRender({NoFile})
    /\ gallery \in GallerySet
    /\ component = NoWidget
    /\ radio_group = NoWidget
    /\ menu_bar = NoWidget
    /\ dropdown = NoWidget
    /\ slider = NoWidget
    /\ app = NoWidget
    /\ gui_log = <<>>
    /\ gui_last = NoCall

\* gallery.handle_event(event)
Gallery_handle_event ==
    \E event \in GalleryEvents :
        \E r \in { SurfaceGallery_handle_event(gallery, event) } :
            /\ gallery' = r.self
            /\ gui_last' = [event |-> event, consumed |-> r.consumed, calls |-> r.calls]
            /\ UNCHANGED << renderVars, component, radio_group, menu_bar, dropdown, slider,
                            app, gui_log >>

SpecGallery == InitGallery /\ [][Gallery_handle_event]_vars

\* ----------------------------------------------------------------------
\* Properties of SurfaceGallery (specification SpecGallery)
\* ----------------------------------------------------------------------
C28_ScrollInRange == gallery.scroll_y >= 0 /\ gallery.scroll_y <= gallery.max_scroll

C28_CollapsedStep == gallery.collapsed => gallery'.scroll_y = gallery.scroll_y

C28_ItemsStep ==
    \A k \in 1..Len(gallery.surface_items) :
        gallery'.surface_items[k].rect = gallery.surface_items[k].rect

\* C28: scroll_y stays within [0, max_scroll], never changes while the
\* gallery is collapsed, and every call of handle_event leaves every surface
\* item's rect.y as it was before the call.
C28_ScrollBounded ==
    /\ []C28_ScrollInRange
    /\ [][C28_CollapsedStep]_vars
    /\ [][C28_ItemsStep]_vars


\* ---------------------------------------------------------- MainApplication
\* pygame.QUIT
Quit == [type |-> "QUIT", button |-> 0, pos |-> NoPos, y |-> 0]

\* hasattr(event, 'pos'): the mouse motion and button events carry a position
HasPos(event) == event.type \in { "MOUSEMOTION", "MOUSEBUTTONDOWN", "MOUSEBUTTONUP" }

\* bool(rect): a pygame.Rect is true when its width and height are not zero
RectTrue(rect) == rect.w # 0 /\ rect.h # 0

\* self.renderer = None
NoRenderer == [kind |-> "none"]

\* Render3(filepath, viewport_rect, height): the viewer of the file, or an
\* exception; a file whose volume is close to zero or that is not STL is
\* rejected and no viewer exists.  surface_colors has one entry per surface.
Render3(f, surfaces) ==
    LET r == RenderInit(f)
    IN  IF r.pc = "error" THEN [raised |-> TRUE, renderer |-> NoRenderer]
        ELSE [raised |-> FALSE,
              renderer |-> [kind |-> "Render3", file |-> f, model |-> r.model,
                            surface_colors |-> surfaces]]

\* AssetsPanel.__init__ and _create_galleries (lines 1556-1576)
AssetsPanel(x, y, width, height) ==
    GUIComponent(x, y, width, height)
    @@ [class |-> "AssetsPanel", header_height |-> 25, content_y |-> y + 25,
        content_height |-> height - 25, galleries |-> <<>>]

\* AssetsPanel._reposition_galleries (lines 1650-1669) from gallery k on, the
\* next gallery going to current_y
RECURSIVE AssetsPanel_reposition_galleries(_, _, _)
AssetsPanel_reposition_galleries(self, k, current_y) ==
    IF k > Len(self.galleries) THEN self
    ELSE LET g == self.galleries[k]
             y_offset == current_y - g.rect.y
             moved == [g EXCEPT !.rect.y = current_y,
                                !.surface_items =
                                    [i \in 1..Len(g.surface_items) |->
                                        [g.surface_items[i] EXCEPT !.rect.y = @ + y_offset]]]
         IN  AssetsPanel_reposition_galleries([self EXCEPT !.galleries[k] = moved], k + 1,
                                              current_y + g.rect.h + 5)

\* AssetsPanel.add_stl_surfaces (lines 1578-1614) with n surfaces
AssetsPanel_add_stl_surfaces(self, n) ==
    IF n = 0 THEN [self EXCEPT !.galleries = <<>>]
    ELSE AssetsPanel_reposition_galleries(
             [self EXCEPT !.galleries = << SurfaceGallery(self.rect.x + 5, self.content_y + 5,
                                                          self.rect.w - 10, n, 250) >>],
             1, self.content_y + 5)

\* AssetsPanel.clear_surfaces (lines 1622-1624)
AssetsPanel_clear_surfaces(self) == [self EXCEPT !.galleries = <<>>]

\* The loop of AssetsPanel.handle_event (lines 1638-1641) from gallery k on:
\* every gallery is handed the event.
RECURSIVE AssetsPanel_galleries_handle_event(_, _, _, _)
AssetsPanel_galleries_handle_event(self, event, k, gallery_changed) ==
    IF k > Len(self.galleries) THEN [self |-> self, consumed |-> gallery_changed]
    ELSE Only({ AssetsPanel_galleries_handle_event([self EXCEPT !.galleries[k] = r.self],
                                                   event, k + 1,
                                                   gallery_changed \/ r.consumed)
                : r \in { SurfaceGallery_handle_event(self.galleries[k], event) } })

\* AssetsPanel.handle_event (lines 1634-1648)
AssetsPanel_handle_event(self, event) ==
    IF ~self.visible \/ ~self.enabled THEN [self |-> self, consumed |-> FALSE]
    ELSE Only({ IF r.consumed
                THEN [self |-> AssetsPanel_reposition_galleries(r.self, 1,
                                                                self.content_y + 5),
                      consumed |-> TRUE]
                ELSE r
                : r \in { AssetsPanel_galleries_handle_event(self, event, 1, FALSE) } })

\* component.handle_event(event) for a component of the application: the
\* buttons use GUIComponent.handle_event.  on_exit tells that the Exit item
\* of the menu was chosen (line 2097).
Component_dispatch(c, event) ==
    IF c.class = "MenuBar"
    THEN LET r == MenuBar_handle_event(c, event)
         IN  [self |-> r.self, consumed |-> r.consumed, on_exit |-> r.calls = << "Exit" >>]
    ELSE IF c.class = "AssetsPanel"
    THEN AssetsPanel_handle_event(c, event) @@ [on_exit |-> FALSE]
    ELSE LET r == GUIComponent_handle_event(c, event)
         IN  [self |-> r.self, consumed |-> r.consumed, on_exit |-> FALSE]

\* MainApplication.__init__, init_3d_renderer and init_gui (lines 1799-1831,
\* 1965-2066) for the default window of 1200 x 800.  components keeps, in the
\* order of the list, the menu bar, the first toolbar button, the assets panel
\* and the first bottom button.
MainApplication(width, height) ==
    [width |-> width, height |-> height, running |-> TRUE,
     renderer |-> NoRenderer,
     viewport_rect |-> Rect(200, 90, width - 400, height - 220),
     components |-> << MenuBar(0, 0, width, 25, AppMenus) @@ [class |-> "MenuBar"],
                       GUIComponent(50, 30, 60, 50) @@ [class |-> "ImageButton"],
                       AssetsPanel(width - 200, 90 + 320 + 20, 190, 280),
                       GUIComponent((width - 430) \div 2, height - 40, 100, 30)
                           @@ [class |-> "TextButton"] >>,
     screen |-> [kind |-> "blank"]]

\* Variant: the loop over the components has no break.
RECURSIVE Components_handle_event_NoBreak(_, _, _, _)
Components_handle_event_NoBreak(self, event, k, offered) ==
    IF k > Len(self.components) THEN [self |-> self, offered |-> offered]
    ELSE Only({ Components_handle_event_NoBreak(
                    [self EXCEPT !.components[k] = r.self,
                                 !.running = IF r.on_exit THEN FALSE ELSE @],
                    event, k + 1, Append(offered, k))
                : r \in { Component_dispatch(self.components[k], event) } })

\* `for component in self.components: if component.handle_event(event): break`
\* (lines 2149-2151) from component k on; offered lists the components handed
\* the event.
RECURSIVE Components_handle_event(_, _, _, _)
Components_handle_event(self, event, k, offered) ==
    IF k > Len(self.components) THEN [self |-> self, offered |-> offered]
    ELSE Only({ LET next == [self EXCEPT !.components[k] = r.self,
                                         !.running = IF r.on_exit THEN FALSE ELSE @]
                IN  IF r.consumed THEN [self |-> next, offered |-> Append(offered, k)]
                    ELSE Components_handle_event(next, event, k + 1, Append(offered, k))
                : r \in { Component_dispatch(self.components[k], event) } })

\* viewport_event (lines 2131-2145); the position of a wheel event is that of
\* the cursor, pygame.mouse.get_pos()
MainApplication_in_viewport(self, event) ==
    /\ RectTrue(self.viewport_rect) /\ self.renderer # NoRenderer
    /\ event.type = "MOUSEWHEEL" \/ HasPos(event)
    /\ collidepoint(self.viewport_rect, event.pos)

\* The body of the loop of MainApplication.handle_events (lines 2128-2155) for
\* one event; to_renderer lists the events handed to renderer.check_keybinds
MainApplication_handle_event(self, event) ==
    LET s1 == IF event.type = "QUIT" THEN [self EXCEPT !.running = FALSE] ELSE self
        viewport_event == MainApplication_in_viewport(s1, event)
    IN  Only({ [self |-> c.self,
                offered |-> c.offered,
                to_renderer |-> (IF viewport_event THEN << event >> ELSE <<>>)
                                \o (IF event.type = "KEYDOWN" /\ c.self.renderer # NoRenderer
                                    THEN << event >> ELSE <<>>)]
               : c \in { IF ~viewport_event THEN Components_handle_event(s1, event, 1, <<>>)
                         ELSE [self |-> s1, offered |-> <<>>] } })

\* The first AssetsPanel of the list (`isinstance(component, AssetsPanel)`,
\* lines 1860-1863), 0 if there is none
RECURSIVE FirstAssetsPanel(_, _)
FirstAssetsPanel(components, k) ==
    IF k > Len(components) THEN 0
    ELSE IF components[k].class = "AssetsPanel" THEN k
    ELSE FirstAssetsPanel(components, k + 1)

\* The assets panel cleared (lines 1860-1863)
MainApplication_clear_assets(self) ==
    LET k == FirstAssetsPanel(self.components, 1)
    IN  IF k = 0 THEN self
        ELSE [self EXCEPT !.components[k] = AssetsPanel_clear_surfaces(@)]

\* MainApplication.populate_assets_from_renderer (lines 1885-1930)
MainApplication_populate_assets_from_renderer(self) ==
    LET k == FirstAssetsPanel(self.components, 1)
    IN  IF self.renderer = NoRenderer \/ k = 0 THEN self
        ELSE [self EXCEPT !.components[k] =
                              AssetsPanel_add_stl_surfaces(@, self.renderer.surface_colors)]

\* Variant: the renderer of before the call is kept until the new one exists.
MainApplication_load_stl_file_KeepPrevious(self, pick) ==
    LET s2 == MainApplication_clear_assets(self)
        r == Render3(pick.file, pick.surfaces)
    IN  IF ~pick.importable \/ r.raised
        THEN [self |-> s2, returned |-> FALSE]
        ELSE [self |-> MainApplication_populate_assets_from_renderer(
                           [s2 EXCEPT !.renderer = r.renderer]),
              returned |-> TRUE]

\* MainApplication.load_stl_file (lines 1833-1883).  pick is the file at
\* filepath, whether `from render3 import Render3` succeeds, and the number
\* of surfaces the renderer finds.
MainApplication_load_stl_file(self, pick) ==
    LET s1 == [self EXCEPT !.renderer = NoRenderer]                     \* line 1857
        s2 == MainApplication_clear_assets(s1)
        r == Render3(pick.file, pick.surfaces)
    IN  IF ~pick.importable \/ r.raised
        THEN [self |-> [s2 EXCEPT !.renderer = NoRenderer], returned |-> FALSE]
        ELSE [self |-> MainApplication_populate_assets_from_renderer(
                           [s2 EXCEPT !.renderer = r.renderer]),
              returned |-> TRUE]

\* The scene part of MainApplication.draw (lines 2195-2219): the scene of the
\* renderer, or the placeholder of the empty viewport
MainApplication_draw(self) ==
    [self EXCEPT !.screen = IF self.renderer # NoRenderer
                            THEN [kind |-> "scene", file |-> self.renderer.file,
                                  model |-> self.renderer.model]
                            ELSE [kind |-> "placeholder"]]

\* Files to pick: a tetrahedron, the same under a name that does not end in
\* .stl, and a sheet listed with both windings (volume zero).
AppTetra ==
    FileOf(1, TetraVectors(TetraPoints(<<0, 0, 1>>, <<1, 1, 1>>)), "tetra",
           TetraPoints(<<0, 0, 1>>, <<1, 1, 1>>))
AppFiles ==
    { AppTetra,
      [AppTetra EXCEPT !.name = <<"m", ".", "o", "b", "j">>],
      FileOf(1, << GA, Reversed(GA) >>, "flat", <<>>) }

\* What open_stl_file_dialog hands to load_stl_file: every file with the
\* module render3 at hand and no or two surfaces, and the tetrahedron without
\* the module.
LoadPicks ==
    { [file |-> f, importable |-> TRUE, surfaces |-> n] : f \in AppFiles, n \in {0, 2} }
    \cup { [file |-> AppTetra, importable |-> FALSE, surfaces |-> 2] }

\* Events: on the Settings title (10,10); at (60,60), on the first toolbar
\* button and on the second row of the Settings dropdown; in the viewport
\* (600,300); on the title of the gallery of the assets panel (1020,470) and
\* on its first item (1020,500); a key and the closing of the window.
AppEvents ==
    { MouseDown(1, << 10, 10 >>), MouseUp(1, << 10, 10 >>),
      MouseDown(1, << 60, 60 >>), MouseUp(1, << 60, 60 >>),
      MouseDown(1, << 600, 300 >>), MouseUp(1, << 600, 300 >>), MouseMotion(<< 600, 300 >>),
      MouseWheel(-1, << 600, 300 >>), MouseWheel(-1, << 1020, 500 >>),
      MouseDown(1, << 1020, 470 >>), MouseDown(1, << 1020, 500 >>),
      KeyDown, Quit }

InitApp ==
    /\ NoRender({NoFile})
    /\ app = MainApplication(1200, 800)
    /\ component = NoWidget
    /\ radio_group = NoWidget
    /\ menu_bar = NoWidget
    /\ dropdown = NoWidget
    /\ slider = NoWidget
    /\ gallery = NoWidget
    /\ gui_log = <<>>
    /\ gui_last = NoCall

appRest == << renderVars, component, radio_group, menu_bar, dropdown, slider, gallery >>

\* One event of pygame.event.get() goes through handle_events.
App_handle_events ==
    \E event \in AppEvents :
        \E r \in { MainApplication_handle_event(app, event) } :
            /\ Len(gui_log) < MaxEvents
            /\ app.running
            /\ app' = r.self
            /\ gui_log' = Append(gui_log, [op |-> "event", event |-> event])
            /\ gui_last' = [event |-> event, consumed |-> r.offered # <<>>, calls |-> <<>>,
                            offered |-> r.offered, to_renderer |-> r.to_renderer]
            /\ UNCHANGED appRest

\* on_open_project (lines 2080-2085): the dialog returns a path and
\* load_stl_file is called with it.
App_load_stl_file ==
    \E pick \in LoadPicks :
        \E r \in { MainApplication_load_stl_file(app, pick) } :
            /\ Len(gui_log) < MaxEvents
            /\ app.running
            /\ app' = r.self
            /\ gui_log' = Append(gui_log, [op |-> "load", pick |-> pick])
            /\ gui_last' = [event |-> [type |-> "load"], consumed |-> FALSE, calls |-> <<>>,
                            returned |-> r.returned]
            /\ UNCHANGED appRest

\* on_new_project (lines 2070-2079): the model and the assets are cleared.
App_on_new_project ==
    /\ Len(gui_log) < MaxEvents
    /\ app.running
    /\ app' = MainApplication_clear_assets([app EXCEPT !.renderer = NoRenderer])
    /\ gui_log' = Append(gui_log, [op |-> "new"])
    /\ gui_last' = [event |-> [type |-> "new"], consumed |-> FALSE, calls |-> <<>>]
    /\ UNCHANGED appRest

\* draw() of the main loop
App_draw ==
    /\ Len(gui_log) < MaxEvents
    /\ app.running
    /\ app' = MainApplication_draw(app)
    /\ gui_log' = Append(gui_log, [op |-> "draw"])
    /\ gui_last' = [event |-> [type |-> "draw"], consumed |-> FALSE, calls |-> <<>>]
    /\ UNCHANGED appRest

NextApp == App_handle_events \/ App_load_stl_file \/ App_on_new_project \/ App_draw

SpecApp == InitApp /\ [][NextApp]_vars


\* ----------------------------------------------------------------------
\* Properties of MainApplication (specification SpecApp)
\* ----------------------------------------------------------------------
\* the step handled an input event / called load_stl_file / drew a frame
EventStep == gui_log' # gui_log /\ gui_log'[Len(gui_log')].op = "event"
LoadStep == gui_log' # gui_log /\ gui_log'[Len(gui_log')].op = "load"
DrawStep == gui_log' # gui_log /\ gui_log'[Len(gui_log')].op = "draw"

\* a mouse event positioned in the viewport, or a wheel event with the cursor
\* in it
InViewport(a, event) ==
    /\ event.type \in { "MOUSEMOTION", "MOUSEBUTTONDOWN", "MOUSEBUTTONUP", "MOUSEWHEEL" }
    /\ InsideRect(a.viewport_rect, event.pos)

\* the components of a up to the first one that consumes the event, all of
\* them if none does
FirstConsumer(a, event) ==
    LET takers == { k \in 1..Len(a.components) :
                        Component_dispatch(a.components[k], event).consumed }
    IN  IF takers = {} THEN Len(a.components)
        ELSE CHOOSE k \in takers : \A j \in takers : k <= j

C29_RouteStep ==
    EventStep =>
        LET event == gui_last'.event
        IN  /\ (app.renderer # NoRenderer /\ InViewport(app, event)) =>
                  /\ gui_last'.to_renderer = << event >>
                  /\ gui_last'.offered = <<>>
                  /\ app'.components = app.components
            /\ ~(app.renderer # NoRenderer /\ InViewport(app, event)) =>
                  /\ gui_last'.offered = [k \in 1..FirstConsumer(app, event) |-> k]
                  /\ \A k \in 1..Len(app.components) :
                         k > FirstConsumer(app, event) => app'.components[k] = app.components[k]
            /\ app.renderer = NoRenderer => gui_last'.to_renderer = <<>>

\* C29: with a renderer loaded, a mouse event in the viewport (or a wheel
\* event with the cursor in it) goes to the renderer and to no component;
\* every other event is offered to the components in list order up to the
\* first one that consumes it; with no renderer nothing goes to a renderer.
C29_ViewportRouting == [][C29_RouteStep]_vars

\* With a renderer loaded, a press in the viewport went to the renderer alone.
C29_Witness ==
    /\ app.renderer # NoRenderer
    /\ gui_last.event = MouseDown(1, << 600, 300 >>)
    /\ gui_last.to_renderer = << MouseDown(1, << 600, 300 >>) >>
    /\ gui_last.offered = <<>>


\* the load must fail: the module is missing, the file encloses no volume, or
\* it is not an STL file
FailsToLoad(pick) ==
    ~pick.importable \/ ZeroVolume(pick.file) \/ ~HasStlSuffix(pick.file.name)

\* the galleries of the assets panels of application a
AssetsGalleries(a) ==
    { a.components[k].galleries :
        k \in { j \in 1..Len(a.components) : a.components[j].class = "AssetsPanel" } }

\* the last entry of the log that loaded or cleared the model, 0 if none
LastLoad(log) ==
    LET loads == { i \in 1..Len(log) : log[i].op \in { "load", "new" } }
    IN  IF loads = {} THEN 0 ELSE CHOOSE i \in loads : \A j \in loads : j <= i

C30_LoadStep ==
    LoadStep =>
        LET pick == gui_log'[Len(gui_log')].pick
        IN  /\ FailsToLoad(pick) =>
                  /\ ~gui_last'.returned
                  /\ app'.renderer = NoRenderer
                  /\ AssetsGalleries(app') = { <<>> }
            /\ gui_last'.returned => app'.renderer # NoRenderer /\ ~FailsToLoad(pick)

C30_DrawStep ==
    DrawStep =>
        LET i == LastLoad(gui_log)
        IN  IF i > 0 /\ gui_log[i].op = "load" /\ ~FailsToLoad(gui_log[i].pick)
            THEN app'.screen.kind = "scene" /\ app'.screen.file = gui_log[i].pick.file
            ELSE app'.screen.kind = "placeholder"

\* C30: a load that fails returns False and leaves no renderer and an empty
\* assets panel, whether or not a model was loaded before; a load that
\* returns True has set the renderer; a frame drawn after a failed load shows
\* no mesh.
C30_FailedLoadClears == [][C30_LoadStep /\ C30_DrawStep]_vars

\* A model was loaded, the next load failed, and the frame drawn after it
\* shows the placeholder.
C30_Witness ==
    /\ Len(gui_log) = 3
    /\ gui_log[1].op = "load" /\ ~FailsToLoad(gui_log[1].pick)
    /\ gui_log[2].op = "load" /\ FailsToLoad(gui_log[2].pick)
    /\ gui_log[3].op = "draw"
    /\ app.renderer = NoRenderer
    /\ AssetsGalleries(app) = { <<>> }
    /\ app.screen.kind = "placeholder"

====
